---------------------------- MODULE Spec2Model ----------------------------
(***************************************************************************)
(* The live-state broadcaster of app/utils/ws.py: the connection registry  *)
(* (ConnectionManager), the websocket handlers (ws_torrents), the daemon   *)
(* worker threads started by _safe_list_torrents and the scheduling loop   *)
(* torrent_broadcaster.                                                    *)
(*                                                                         *)
(* Time.  All instants are kept relative to the current reading of         *)
(* time.monotonic(), which is therefore the constant `now`; letting time   *)
(* pass (Advance) shifts every stored instant back by the amount passed.   *)
(* Time passes in steps of BACKOFF_STEP seconds, the unit of               *)
(* _compute_backoff, of which every timing constant of ws.py is a          *)
(* multiple.                                                               *)
(*                                                                         *)
(* Scheduling.  asyncio runs one coroutine at a time and switches only at  *)
(* an await that really suspends: asyncio.sleep, the wait for the worker   *)
(* thread, and a websocket send.  One action is one run of a coroutine     *)
(* from one suspension to the next.  Worker threads are real threads.      *)
(***************************************************************************)
EXTENDS Integers, Sequences, FiniteSets, TLC

VARIABLES
    active,            \* manager.active
    _lock,             \* manager._lock.locked()
    chan,              \* per websocket: handler/channel state
    pc,                \* where torrent_broadcaster is suspended
    next_run,          \* next_run - time.monotonic()
    _last_snapshot,
    _fail_count,
    _cached_db_list,
    _last_db_fetch,    \* _last_db_fetch - time.monotonic(), floored
    _poll_lock,        \* _poll_lock.locked()
    _stop_event,
    qb_elapsed,        \* time the loop has awaited its list_torrents call
    orphans,           \* list_torrents calls still running after a timeout
    snapshot,          \* the snapshot being broadcast
    b_conns,           \* broadcast: conns
    b_idx,             \* broadcast: position of the for loop in conns
    b_dead,            \* broadcast: dead
    b_got,             \* broadcast: the connections whose send_json returned, in order
    backoff_pending,   \* history: next_run was last set by the backoff
    emptied,           \* history: registry was empty since the last comparison
    idled,             \* history: a tick found no client since the last comparison
    last_built,        \* history: snapshot of the last successful poll cycle
    last_inputs,       \* history: the lists that snapshot was built from
    run_backoff,       \* history: backoff of the last failure, 0 after a success
    join_age,          \* history: time since a join into an empty registry
    since_poll,        \* history: time since the last poll cycle started
    ev,                \* history: what the last step did
    store,             \* the torrent table: rows in id order
    bg_tasks,          \* BackgroundTasks: _add_to_qb calls not yet run
    qb_accepted,       \* ids of the rows whose transfer the daemon accepted
    _qb_client,        \* qb_helper._qb_client
    builds,            \* history: number of _build_client calls
    th,                \* per thread: where its get_qb_client call stands
    _qb_lock,          \* qb_helper._qb_lock: the thread that holds it
    login_failed,      \* history: some auth_log_in raised
    call,              \* add_torrent: the call in progress
    poll,              \* poll_for_new_torrent_info_hash: the call in progress
    last_bcast,        \* history: the payload of the last broadcast that returned
    received           \* history: the connections a torrents_snapshot was sent to

vars == <<active, _lock, chan, pc, next_run, _last_snapshot, _fail_count,
          _cached_db_list, _last_db_fetch, _poll_lock, _stop_event,
          qb_elapsed, orphans, snapshot, b_conns, b_idx, b_dead, b_got,
          backoff_pending, emptied, idled, last_built, last_inputs, run_backoff,
          join_age, since_poll, ev, store, bg_tasks, qb_accepted, _qb_client,
          builds, th, _qb_lock, login_failed, call, poll, last_bcast, received>>

\* the calls in progress: get_qb_client in its threads, add_torrent,
\* poll_for_new_torrent_info_hash
CallVars == <<th, _qb_lock, login_failed, call, poll>>

\* the state of the ingest path and of the daemon client (main.py, qb_helper.py)
AppVars == <<store, bg_tasks, qb_accepted, _qb_client, builds, CallVars>>

\* the state of ws.py, ev apart
WsVars == <<active, _lock, chan, pc, next_run, _last_snapshot, _fail_count,
            _cached_db_list, _last_db_fetch, _poll_lock, _stop_event,
            qb_elapsed, orphans, snapshot, b_conns, b_idx, b_dead, b_got,
            backoff_pending, emptied, idled, last_built, last_inputs, run_backoff,
            join_age, since_poll, last_bcast, received>>

-----------------------------------------------------------------------------
(* Configuration of ws.py *)

POLL_INTERVAL == 10

QB_TIMEOUT == 5

MAX_BACKOFF == 60

DB_REFRESH_EVERY == 30

BACKOFF_STEP == 5

(* Bounds of the model *)

NumConns == 3

LoopConns == 2

MaxFail == 3

MaxRun == 14

MaxOrphans == 1

MaxLag == 5

MaxId == 3

MaxRecs == 3

MaxLive == 3

MaxRecords == 2

MaxTasks == 2

MaxBatch == 2

MaxBuilds == 4

\* threads that call get_qb_client at the same time
NumThreads == 2

Conns == 1..NumConns

\* the websockets that connect while the loop is modelled in full
LoopWs == 1..LoopConns

\* Optional[T]: None is the empty set, a value v is {v}
None == {}

Some(v) == {v}

The(o) == CHOOSE v \in o : TRUE

now == 0

Min(a, b) == IF a < b THEN a ELSE b

Max(a, b) == IF a > b THEN a ELSE b


-----------------------------------------------------------------------------
(* Snapshot construction, torrent_broadcaster lines 122-154.               *)
(* A string is a sequence of one-character strings; a live record is a     *)
(* record holding the attributes the daemon object has.                    *)

LowerChar(c) ==
    CASE c = "A" -> "a"
      [] c = "B" -> "b"
      [] c = "C" -> "c"
      [] c = "H" -> "h"
      [] c = "I" -> "i"
      [] c = "N" -> "n"
      [] c = "R" -> "r"
      [] c = "T" -> "t"
      [] c = "U" -> "u"
      [] OTHER -> c

\* str.lower()
Lower(s) == [i \in DOMAIN s |-> LowerChar(s[i])]

\* getattr(t, "hash", "").lower()
LiveKey(t) == Lower(IF "hash" \in DOMAIN t THEN t.hash ELSE <<>>)

\* (t.info_hash or "").lower()
InfoHash(t) == Lower(IF t.info_hash = None THEN <<>> ELSE The(t.info_hash))

\* a lookup in which the first record reported for a key wins
LiveGetFirst(q_list, k) ==
    LET hits == {i \in DOMAIN q_list :
                    (IF "hash" \in DOMAIN q_list[i] THEN q_list[i].hash ELSE <<>>) = k} IN
    IF hits = {} THEN {}
    ELSE {q_list[CHOOSE i \in hits : \A j \in hits : i <= j]}

\* live_map.get(info_hash) for live_map = {key: t for t in q_list}: the last
\* record of q_list with that key, or None
LiveGet(q_list, k) ==
    LET hits == {i \in DOMAIN q_list : LiveKey(q_list[i]) = k} IN
    IF hits = {} THEN None
    ELSE Some(q_list[CHOOSE i \in hits : \A j \in hits : j <= i])

LiveFields == {"progress", "state", "dlspeed", "upspeed", "eta"}

\* a display name that ignores correct_name
DisplayNameOnlyName(t) == t.name

\* t.correct_name or t.name
DisplayName(t) ==
    IF t.correct_name = None \/ The(t.correct_name) = <<>> THEN t.name
    ELSE The(t.correct_name)

\* int(live.progress * 100), the fraction being num/den with num >= 0
ProgressPct(p) == (p.num * 100) \div p.den

\* the dict appended for one persisted record
View(t, live) ==
    IF live # None
    THEN [id |-> t.id, hash |-> InfoHash(t), name |-> DisplayName(t),
          progress |-> ProgressPct(The(live).progress), state |-> The(live).state,
          dlspeed |-> The(live).dlspeed, upspeed |-> The(live).upspeed,
          eta |-> The(live).eta,
          poster |-> t.poster]
    ELSE [id |-> t.id, hash |-> InfoHash(t), name |-> DisplayName(t),
          progress |-> 0, state |-> "missing",
          dlspeed |-> 0, upspeed |-> 0, eta |-> None,
          poster |-> t.poster]

\* an attribute read of a matched live record raises AttributeError
BuildRaises(db_list, q_list) ==
    \E i \in DOMAIN db_list :
        LET live == LiveGet(q_list, InfoHash(db_list[i])) IN
        live # None /\ ~(LiveFields \subseteq DOMAIN The(live))

\* the for loop of lines 125-152
Views(db_list, q_list) ==
    [i \in DOMAIN db_list |-> View(db_list[i], LiveGet(q_list, InfoHash(db_list[i])))]

\* a sort that leaves the list as it is
SortKeepsOrder(s) == s

\* list.sort(key=lambda x: x["id"], reverse=True): stable, descending
RECURSIVE InsertDesc(_, _)
InsertDesc(s, x) ==
    IF s = <<>> THEN <<x>>
    ELSE IF Head(s).id >= x.id THEN <<Head(s)>> \o InsertDesc(Tail(s), x)
    ELSE <<x>> \o s

RECURSIVE SortDesc(_)
SortDesc(s) ==
    IF s = <<>> THEN <<>>
    ELSE InsertDesc(SortDesc(SubSeq(s, 1, Len(s) - 1)), s[Len(s)])

\* a build whose result depends on what was built before
BuildSnapshotStateful(db_list, q_list) ==
    IF last_built = {} THEN SortDesc(Views(db_list, q_list)) ELSE <<>>

BuildSnapshot(db_list, q_list) == SortDesc(Views(db_list, q_list))

(* What the store and the daemon can answer in the loop's model *)

Rec(i, h, n) == [id |-> i, info_hash |-> h, name |-> n, correct_name |-> None,
                 poster |-> None]

Live(h, n, d, st) == [hash |-> h, progress |-> [num |-> n, den |-> d], state |-> st,
                      dlspeed |-> 100, upspeed |-> 0, eta |-> Some(60)]

DbLists == { <<Rec(1, Some(<<"a", "b">>), <<"X">>), Rec(2, None, <<"Y">>)>> }

QLists == { <<>>,
            <<Live(<<"A", "B">>, 1, 2, "downloading")>>,
            <<[hash |-> <<"a", "b">>]>> }

-----------------------------------------------------------------------------
(* ConnectionManager, lines 15-46.  No await separates taking _lock from   *)
(* releasing it, so each locked section is one atomic step.                *)

Range(s) == {s[i] : i \in DOMAIN s}

\* list.remove(x): drops the first occurrence
RemoveFirst(s, x) ==
    LET i == CHOOSE k \in DOMAIN s : s[k] = x /\ \A j \in DOMAIN s : s[j] = x => k <= j IN
    SubSeq(s, 1, i - 1) \o SubSeq(s, i + 1, Len(s))

\* ConnectionManager.connect: self.active.append(websocket)
connect(act, w) == Append(act, w)

\* a disconnect that leaves the registry as it is
disconnect_keeps(act, w) == act

\* ConnectionManager.disconnect
disconnect(act, w) == IF w \in Range(act) THEN RemoveFirst(act, w) ELSE act

\* for ws in dead: await self.disconnect(ws)
RECURSIVE DisconnectAll(_, _)
DisconnectAll(act, dead) ==
    IF dead = <<>> THEN act ELSE DisconnectAll(disconnect(act, Head(dead)), Tail(dead))

\* a has_clients that always answers yes
has_clients_always == TRUE

\* ConnectionManager.has_clients
has_clients == Len(active) > 0

\* a copy that lists every member twice
ConnsCopyDoubled(act) == act \o act

\* broadcast, line 32: conns = list(self.active)
ConnsCopy(act) == act

\* a broadcast that keeps _lock while it sends
LockHeldDuringSends == TRUE

\* broadcast, lines 31-33: `async with self._lock` is left before the sends
LockHeldAfterCopy == FALSE

\* ws.send_json(message) raises on a broken or closed channel
SendRaises(w) == chan[w] # "open"

-----------------------------------------------------------------------------
(* Bookkeeping shared by the actions *)

\* a backoff without the ceiling
_compute_backoff_uncapped(fail_count) == fail_count * BACKOFF_STEP

\* _compute_backoff
_compute_backoff(fail_count) == Min(MAX_BACKOFF, fail_count * BACKOFF_STEP)

\* the loop back at `while not _stop_event.is_set()` with next_run = nr: it
\* leaves, sleeps until nr, or goes on without suspending
AtTop(nr) ==
    IF _stop_event THEN "done" ELSE IF now < nr THEN "sleep" ELSE "run"

\* no other coroutine runs while the loop runs without suspending
Yielded == pc # "run"

InFlight == orphans + (IF pc = "await_qb" THEN 1 ELSE 0)

JoinCap == MAX_BACKOFF + BACKOFF_STEP

\* history of the registry after it changed from active to act
RegistryHistory(act) ==
    /\ emptied' = (emptied \/ act = <<>>)
    /\ join_age' = IF act = <<>> THEN -1
                   ELSE IF active = <<>> /\ pc = "sleep" THEN 0
                   ELSE join_age

LoopLocals == <<qb_elapsed, snapshot, b_conns, b_idx, b_dead, b_got>>

LoopGlobals == <<next_run, _last_snapshot, _fail_count, _cached_db_list,
                 _last_db_fetch, _poll_lock>>

LoopHistory == <<backoff_pending, idled, last_built, last_inputs, run_backoff,
                 since_poll>>

\* nothing submitted yet, no daemon session built
AppInit ==
    /\ store = <<>>
    /\ bg_tasks = <<>>
    /\ qb_accepted = {}
    /\ _qb_client = {}
    /\ builds = 0
    /\ th = [t \in 1..NumThreads |-> [pc |-> "idle", force |-> FALSE]]
    /\ _qb_lock = {}
    /\ login_failed = FALSE
    /\ call = [pc |-> "idle"]
    /\ poll = [pc |-> "idle"]

-----------------------------------------------------------------------------
(* ws_torrents, lines 184-198 *)

\* a connection arrives: rejected token, or manager.connect; the websockets
\* are numbered in the order they arrive
\* auth.verify_token: the claims of a token that decodes, None for one that
\* is expired, malformed or signed with another key (jwt.PyJWTError)
verify_token(token_ok) == IF token_ok THEN Some("user") ELSE None

reject_admits(act, w) == Append(act, w)

\* ws_torrents, lines 187-189: the registry after a connection whose token
\* was refused is closed with code 1008; manager.connect is not reached
reject(act, w) == act

SentOnJoinLast(w) == {w}

\* ws_torrents, lines 191-196: the connections sent a torrents_snapshot by
\* the handler that admits w: manager.connect accepts and appends, and the
\* loop after it sends pings only
SentOnJoin(w) == {}

WsConnect(w, token_ok) ==
    /\ Yielded
    /\ chan[w] = "new"
    /\ \A v \in Conns : v < w => chan[v] # "new"
    /\ IF verify_token(token_ok) # None
       THEN /\ ~_lock
            /\ active' = connect(active, w)
            /\ chan' = [chan EXCEPT ![w] = "open"]
            /\ RegistryHistory(connect(active, w))
            /\ received' = received \cup SentOnJoin(w)
       ELSE /\ chan' = [chan EXCEPT ![w] = "rejected"]
            /\ active' = reject(active, w)
            /\ UNCHANGED <<emptied, join_age, received>>
    /\ ev' = [kind |-> "env"]
    /\ UNCHANGED <<_lock, pc, _stop_event, orphans, LoopLocals, LoopGlobals,
                   LoopHistory>>
    /\ UNCHANGED last_bcast
    /\ UNCHANGED AppVars

\* the peer goes away: from now on every send on the channel raises
ChannelBreak(w) ==
    /\ Yielded
    /\ chan[w] = "open"
    /\ chan' = [chan EXCEPT ![w] = "broken"]
    /\ ev' = [kind |-> "env"]
    /\ UNCHANGED <<active, _lock, pc, _stop_event, orphans, emptied, join_age,
                   LoopLocals, LoopGlobals, LoopHistory>>
    /\ UNCHANGED <<last_bcast, received>>
    /\ UNCHANGED AppVars

\* a handler that ends without removing its connection
HandlerExitLeaks(act, w) == act

\* ws_torrents, lines 197-198: the registry after
\* `except (WebSocketDisconnect, Exception): await manager.disconnect(websocket)`
HandlerExit(act, w) == disconnect(act, w)

\* the keepalive: sleep(PING_INTERVAL), send_json(ping); a failed send ends
\* the handler through manager.disconnect
WsPing(w) ==
    /\ Yielded
    /\ chan[w] \in {"open", "broken"}
    /\ IF SendRaises(w)
       THEN /\ ~_lock
            /\ active' = HandlerExit(active, w)
            /\ chan' = [chan EXCEPT ![w] = "done"]
            /\ RegistryHistory(HandlerExit(active, w))
       ELSE UNCHANGED <<active, chan, emptied, join_age>>
    /\ ev' = [kind |-> "env"]
    /\ UNCHANGED <<_lock, pc, _stop_event, orphans, LoopLocals, LoopGlobals,
                   LoopHistory>>
    /\ UNCHANGED <<last_bcast, received>>
    /\ UNCHANGED AppVars

-----------------------------------------------------------------------------
(* torrent_broadcaster, lines 79-161 *)

NoLocals ==
    /\ qb_elapsed' = 0
    /\ snapshot' = None
    /\ b_conns' = <<>>
    /\ b_idx' = 0
    /\ b_dead' = <<>>
    /\ b_got' = <<>>

\* what get_all_torrents can do when the cache is refreshed (lines 103-106)
DbResults ==
    {[ok |-> TRUE, fetched |-> TRUE, list |-> l] : l \in DbLists}
        \cup {[ok |-> FALSE, fetched |-> TRUE, list |-> <<>>]}

\* a cache that is filled once and never refreshed
NeedFetchFirstOnly == _cached_db_list = None

\* line 103
NeedFetch == _cached_db_list = None \/ now - _last_db_fetch >= DB_REFRESH_EVERY

\* a handler that lets the exception end the task
OuterExceptEscapes(nr) == "crashed"

\* pc after the handler `except Exception as e: print(...)` of lines 160-161
OuterExcept(nr) == AtTop(nr)

\* a schedule that skips every other tick
NextTickTwice(nr) == nr + 2 * POLL_INTERVAL

\* line 89: next_run += POLL_INTERVAL
NextTick(nr) == nr + POLL_INTERVAL

\* a comparison that always reports a change
ChangedAlways(built, last) == TRUE

\* line 156: snapshot != _last_snapshot
Changed(built, last) == Some(built) # last

\* One iteration from the top of the while loop (after the sleep, when one
\* was needed) to the next suspension: lines 84-112.
Tick ==
    /\ pc \in {"run", "sleep"}
    /\ next_run <= now
    /\ ~_lock
    /\ LET nr == NextTick(next_run) IN
       /\ next_run' = nr
       /\ backoff_pending' = FALSE
       /\ IF ~has_clients
          THEN \* lines 92-94
               /\ _last_snapshot' = None
               /\ pc' = AtTop(nr)
               /\ idled' = TRUE
               /\ ev' = [kind |-> "tick", had_clients |-> active # <<>>,
                         fetched |-> FALSE, db_failed |-> FALSE,
                         gap |-> since_poll, after_backoff |-> backoff_pending,
                         waited |-> join_age, fails_before |-> _fail_count]
               /\ UNCHANGED <<_cached_db_list, _last_db_fetch, _poll_lock,
                              since_poll, join_age>>
          ELSE IF _poll_lock
          THEN \* lines 97-98
               /\ pc' = AtTop(nr)
               /\ ev' = [kind |-> "tick", had_clients |-> active # <<>>,
                         fetched |-> FALSE, db_failed |-> FALSE,
                         gap |-> since_poll, after_backoff |-> backoff_pending,
                         waited |-> join_age, fails_before |-> _fail_count]
               /\ UNCHANGED <<_last_snapshot, _cached_db_list, _last_db_fetch,
                              _poll_lock, since_poll, join_age, idled>>
          ELSE \* lines 100-112
               \E r \in (IF NeedFetch THEN DbResults
                         ELSE {[ok |-> TRUE, fetched |-> FALSE,
                                list |-> The(_cached_db_list)]}) :
                  /\ _cached_db_list' = IF r.ok THEN Some(r.list) ELSE _cached_db_list
                  /\ _last_db_fetch' = IF r.ok /\ r.fetched THEN now ELSE _last_db_fetch
                  /\ pc' = IF r.ok THEN "await_qb" ELSE OuterExcept(nr)
                  /\ _poll_lock' = r.ok
                  /\ since_poll' = 0
                  /\ join_age' = -1
                  /\ ev' = [kind |-> "tick", had_clients |-> active # <<>>,
                            fetched |-> r.fetched, db_failed |-> ~r.ok,
                            gap |-> since_poll, after_backoff |-> backoff_pending,
                            waited |-> join_age, fails_before |-> _fail_count]
                  /\ UNCHANGED <<_last_snapshot, idled>>
    /\ NoLocals
    /\ UNCHANGED <<active, _lock, chan, _fail_count, _stop_event, orphans, emptied,
                   last_built, last_inputs, run_backoff>>
    /\ UNCHANGED <<last_bcast, received>>
    /\ UNCHANGED AppVars

\* a handler that forgets the stored snapshot
SnapshotDroppedOnFailure(last) == None

\* lines 114-120 assign _fail_count and next_run and go back to the top:
\* _last_snapshot after them
SnapshotAfterFailure(last) == last

\* lines 114-120: the daemon call raised, or wait_for timed out
QbFailed(timed_out, max_fail) ==
    LET fc == _fail_count + 1
        backoff_time == _compute_backoff(fc) IN
    /\ _fail_count < max_fail
    /\ _fail_count' = fc
    /\ next_run' = now + backoff_time
    /\ pc' = AtTop(now + backoff_time)
    /\ _poll_lock' = FALSE
    /\ backoff_pending' = TRUE
    /\ run_backoff' = backoff_time
    /\ ev' = [kind |-> "qb_fail", timed_out |-> timed_out, fails_before |-> _fail_count,
              backoff |-> backoff_time, prev_backoff |-> run_backoff]
    /\ NoLocals
    /\ _last_snapshot' = SnapshotAfterFailure(_last_snapshot)
    /\ UNCHANGED <<active, _lock, chan, _cached_db_list,
                   _last_db_fetch, _stop_event, emptied, idled, last_built,
                   last_inputs, join_age, since_poll>>
    /\ UNCHANGED <<last_bcast, received>>
    /\ UNCHANGED AppVars

\* list_torrents raised in its thread before the timeout
QbRaise ==
    /\ pc = "await_qb"
    /\ QbFailed(FALSE, MaxFail)
    /\ UNCHANGED orphans

\* asyncio.wait_for gave up after QB_TIMEOUT; the thread cannot be cancelled
\* and goes on running list_torrents
QbTimeout ==
    /\ pc = "await_qb"
    /\ qb_elapsed >= QB_TIMEOUT
    /\ orphans < MaxOrphans
    /\ QbFailed(TRUE, MaxFail)
    /\ orphans' = orphans + 1

\* a thread left behind by a timeout ends; its result is dropped
OrphanFinish ==
    /\ orphans > 0
    /\ orphans' = orphans - 1
    /\ ev' = [kind |-> "env"]
    /\ UNCHANGED <<active, _lock, chan, pc, _stop_event, emptied, join_age,
                   LoopLocals, LoopGlobals, LoopHistory>>
    /\ UNCHANGED <<last_bcast, received>>
    /\ UNCHANGED AppVars

StoredBeforeBroadcast(last, built) == Some(built)

\* lines 156-158: _last_snapshot while manager.broadcast is awaited; the
\* assignment of line 158 follows the await of line 157
StoredAtBroadcastCall(last, built) == last

\* lines 113, 122-158: list_torrents returned q_list
QbReturn(q_list) ==
    /\ pc = "await_qb"
    /\ _fail_count' = 0
    /\ run_backoff' = 0
    /\ LET db_list == The(_cached_db_list)
           built == BuildSnapshot(db_list, q_list) IN
       IF BuildRaises(db_list, q_list)
       THEN /\ pc' = OuterExcept(next_run)
            /\ _poll_lock' = FALSE
            /\ ev' = [kind |-> "build_fail"]
            /\ NoLocals
            /\ UNCHANGED <<_lock, _last_snapshot, emptied, idled, last_built,
                           last_inputs, last_bcast>>
       ELSE /\ emptied' = (active = <<>>)
            /\ idled' = FALSE
            /\ last_built' = Some(built)
            /\ last_inputs' = Some([db_list |-> db_list, q_list |-> q_list])
            /\ ev' = [kind |-> "compare", emptied |-> emptied, idled |-> idled,
                      prior |-> _last_snapshot, prev_built |-> last_built,
                      same_inputs |-> (last_inputs = Some([db_list |-> db_list, q_list |-> q_list])),
                      cache |-> _cached_db_list,
                      built |-> Some(built), sent |-> Changed(built, _last_snapshot)]
            /\ IF Changed(built, _last_snapshot) /\ active # <<>>
               THEN \* broadcast copies the registry and starts sending
                    /\ ~_lock
                    /\ _lock' = LockHeldAfterCopy
                    /\ pc' = "send"
                    /\ snapshot' = Some(built)
                    /\ b_conns' = ConnsCopy(active)
                    /\ b_idx' = 1
                    /\ b_dead' = <<>>
                    /\ b_got' = <<>>
                    /\ qb_elapsed' = 0
                    /\ _last_snapshot' = StoredAtBroadcastCall(_last_snapshot, built)
                    /\ UNCHANGED <<_poll_lock, last_bcast>>
               ELSE \* nothing to send to, or nothing changed
                    /\ pc' = AtTop(next_run)
                    /\ _last_snapshot' = IF Changed(built, _last_snapshot)
                                         THEN Some(built) ELSE _last_snapshot
                    /\ last_bcast' = IF Changed(built, _last_snapshot)
                                      THEN Some(built) ELSE last_bcast
                    /\ _poll_lock' = FALSE
                    /\ NoLocals
                    /\ UNCHANGED _lock
    /\ UNCHANGED <<active, chan, next_run, _cached_db_list, _last_db_fetch,
                   _stop_event, orphans, backoff_pending, join_age, since_poll>>
    /\ UNCHANGED received
    /\ UNCHANGED AppVars

\* broadcast, lines 35-42: one `await ws.send_json(message)` to conns[b_idx],
\* and after the last one the removal of the dead connections
BroadcastStep ==
    LET w == b_conns[b_idx]
        dead == IF SendRaises(w) THEN Append(b_dead, w) ELSE b_dead
        got == IF SendRaises(w) THEN b_got ELSE Append(b_got, w) IN
    /\ received' = received \cup Range(got)
    /\ IF b_idx < Len(b_conns)
       THEN /\ b_idx' = b_idx + 1
            /\ b_dead' = dead
            /\ b_got' = got
            /\ ev' = [kind |-> "send"]
            /\ UNCHANGED <<active, b_conns, emptied, join_age>>
       ELSE /\ dead # <<>> => ~_lock
            /\ active' = DisconnectAll(active, dead)
            /\ RegistryHistory(DisconnectAll(active, dead))
            /\ ev' = [kind |-> "bcast_done", conns |-> b_conns, dead |-> dead,
                      got |-> got, before |-> active]
            /\ b_conns' = <<>>
            /\ b_idx' = 0
            /\ b_dead' = <<>>
            /\ b_got' = <<>>

\* the loop inside manager.broadcast (line 157); when broadcast returns,
\* line 158 and the end of the iteration
Send ==
    /\ pc = "send"
    /\ BroadcastStep
    /\ IF b_idx < Len(b_conns)
       THEN UNCHANGED <<pc, _last_snapshot, _poll_lock, snapshot>>
       ELSE /\ _last_snapshot' = snapshot
            /\ _poll_lock' = FALSE
            /\ pc' = AtTop(next_run)
            /\ snapshot' = None
    /\ UNCHANGED <<chan, next_run, _fail_count, _cached_db_list, _last_db_fetch,
                   _lock, _stop_event, orphans, qb_elapsed, LoopHistory>>
    /\ last_bcast' = IF b_idx < Len(b_conns) THEN last_bcast ELSE snapshot
    /\ UNCHANGED AppVars

\* ws_stop_broadcaster, lines 172-181: the event is set and the task is
\* cancelled at the await it is suspended in; a list_torrents call it was
\* awaiting goes on in its thread
Shutdown ==
    /\ Yielded
    /\ ~_stop_event
    /\ _stop_event' = TRUE
    /\ pc' = "cancelled"
    /\ _poll_lock' = FALSE
    /\ orphans' = IF pc = "await_qb" THEN orphans + 1 ELSE orphans
    /\ ev' = [kind |-> "shutdown", at |-> pc]
    /\ NoLocals
    /\ UNCHANGED <<active, _lock, chan, next_run, _last_snapshot, _fail_count,
                   _cached_db_list, _last_db_fetch, emptied, join_age, LoopHistory>>
    /\ UNCHANGED <<last_bcast, received>>
    /\ UNCHANGED AppVars

\* BACKOFF_STEP seconds pass while the loop is suspended
Advance ==
    LET d == BACKOFF_STEP IN
    /\ \/ pc = "sleep" /\ next_run >= d
       \/ pc = "await_qb" /\ qb_elapsed + d <= QB_TIMEOUT
       \/ pc = "send" /\ next_run - d >= -MaxLag
    /\ next_run' = next_run - d
    /\ _last_db_fetch' = Max(_last_db_fetch - d, -DB_REFRESH_EVERY)
    /\ qb_elapsed' = IF pc = "await_qb" THEN qb_elapsed + d ELSE qb_elapsed
    /\ join_age' = IF join_age < 0 THEN join_age ELSE Min(join_age + d, JoinCap)
    /\ since_poll' = Min(since_poll + d, POLL_INTERVAL)
    /\ ev' = [kind |-> "env"]
    /\ UNCHANGED <<active, _lock, chan, pc, _last_snapshot, _fail_count,
                   _cached_db_list, _poll_lock, _stop_event, orphans, snapshot,
                   b_conns, b_idx, b_dead, b_got, backoff_pending, emptied, idled,
                   last_built, last_inputs, run_backoff>>
    /\ UNCHANGED <<last_bcast, received>>
    /\ UNCHANGED AppVars

-----------------------------------------------------------------------------

\* ws.py after import and startup: nobody connected, the loop at its top
WsInit ==
    /\ active = <<>>
    /\ _lock = FALSE
    /\ chan = [w \in Conns |-> "new"]
    /\ pc = "run"
    /\ next_run = now
    /\ _last_snapshot = None
    /\ _fail_count = 0
    /\ _cached_db_list = None
    /\ _last_db_fetch = -DB_REFRESH_EVERY
    /\ _poll_lock = FALSE
    /\ _stop_event = FALSE
    /\ qb_elapsed = 0
    /\ orphans = 0
    /\ snapshot = None
    /\ b_conns = <<>>
    /\ b_idx = 0
    /\ b_dead = <<>>
    /\ b_got = <<>>
    /\ backoff_pending = FALSE
    /\ emptied = TRUE
    /\ idled = FALSE
    /\ last_built = None
    /\ last_inputs = None
    /\ run_backoff = 0
    /\ join_age = -1
    /\ since_poll = POLL_INTERVAL
    /\ last_bcast = None
    /\ received = {}

Init ==
    /\ WsInit
    /\ ev = [kind |-> "init"]
    /\ AppInit

Next ==
    \/ \E w \in LoopWs, token_ok \in BOOLEAN : WsConnect(w, token_ok)
    \/ \E w \in LoopWs : ChannelBreak(w)
    \/ \E w \in LoopWs : WsPing(w)
    \/ Tick
    \/ QbRaise
    \/ QbTimeout
    \/ OrphanFinish
    \/ \E q_list \in QLists : QbReturn(q_list)
    \/ Send
    \/ Advance

Spec == Init /\ [][Next]_vars

NextStop == Next \/ Shutdown

SpecStop == Init /\ [][NextStop]_vars

(* The loop with one subscriber that stays, and a daemon that may fail up  *)
(* to MaxRun times in a row.                                               *)

QbRaiseRun ==
    /\ pc = "await_qb"
    /\ QbFailed(FALSE, MaxRun)
    /\ UNCHANGED orphans

NextBackoff ==
    \/ WsConnect(1, TRUE)
    \/ Tick
    \/ QbRaiseRun
    \/ \E q_list \in QLists : QbReturn(q_list)
    \/ Send
    \/ Advance

SpecBackoff == Init /\ [][NextBackoff]_vars

-----------------------------------------------------------------------------
(* The registry on its own: ConnectionManager and the handlers, with       *)
(* manager.broadcast called at any moment by a caller that does nothing    *)
(* else.                                                                   *)

Messages == {Some(BuildSnapshot(d, q)) : d \in DbLists, q \in {<<>>}}

\* a caller awaits manager.broadcast(message): lines 31-32
BroadcastCall(message) ==
    /\ pc = "sleep"
    /\ ~_lock
    /\ _lock' = LockHeldAfterCopy
    /\ IF active = <<>>
       THEN /\ ev' = [kind |-> "bcast_done", conns |-> <<>>, dead |-> <<>>,
                      got |-> <<>>, before |-> active]
            /\ UNCHANGED <<pc, snapshot, b_conns, b_idx>>
       ELSE /\ pc' = "send"
            /\ snapshot' = message
            /\ b_conns' = ConnsCopy(active)
            /\ b_idx' = 1
            /\ ev' = [kind |-> "bcast_call"]
    /\ UNCHANGED <<active, chan, _stop_event, orphans, qb_elapsed, b_dead, b_got,
                   emptied, join_age, LoopGlobals, LoopHistory>>
    /\ last_bcast' = IF active = <<>> THEN message ELSE last_bcast
    /\ UNCHANGED received
    /\ UNCHANGED AppVars

\* the caller inside manager.broadcast; it goes back to waiting afterwards
BroadcastRun ==
    /\ pc = "send"
    /\ BroadcastStep
    /\ pc' = IF b_idx < Len(b_conns) THEN pc ELSE "sleep"
    /\ snapshot' = IF b_idx < Len(b_conns) THEN snapshot ELSE None
    /\ UNCHANGED <<_lock, chan, _stop_event, orphans, qb_elapsed, LoopGlobals,
                   LoopHistory>>
    /\ last_bcast' = IF b_idx < Len(b_conns) THEN last_bcast ELSE snapshot
    /\ UNCHANGED AppVars

InitRegistry ==
    /\ active = <<>>
    /\ _lock = FALSE
    /\ chan = [w \in Conns |-> "new"]
    /\ pc = "sleep"
    /\ next_run = POLL_INTERVAL
    /\ _last_snapshot = None
    /\ _fail_count = 0
    /\ _cached_db_list = None
    /\ _last_db_fetch = -DB_REFRESH_EVERY
    /\ _poll_lock = FALSE
    /\ _stop_event = FALSE
    /\ qb_elapsed = 0
    /\ orphans = 0
    /\ snapshot = None
    /\ b_conns = <<>>
    /\ b_idx = 0
    /\ b_dead = <<>>
    /\ b_got = <<>>
    /\ backoff_pending = FALSE
    /\ emptied = TRUE
    /\ idled = FALSE
    /\ last_built = None
    /\ last_inputs = None
    /\ run_backoff = 0
    /\ join_age = -1
    /\ since_poll = POLL_INTERVAL
    /\ last_bcast = None
    /\ received = {}
    /\ ev = [kind |-> "init"]
    /\ AppInit

NextRegistry ==
    \/ \E w \in Conns, token_ok \in BOOLEAN : WsConnect(w, token_ok)
    \/ \E w \in Conns : ChannelBreak(w)
    \/ \E w \in Conns : WsPing(w)
    \/ \E message \in Messages : BroadcastCall(message)
    \/ BroadcastRun

SpecRegistry == InitRegistry /\ [][NextRegistry]_vars

-----------------------------------------------------------------------------
(* The snapshot builder on a range of inputs, for one cycle from the return *)
(* of the daemon call to the end of the broadcast: a poll cycle is awaiting *)
(* list_torrents with one subscriber connected, the cached record list is  *)
(* any list of up to MaxRecs rows with distinct ids in any order (the      *)
(* select of get_all_torrents has no ORDER BY), and the daemon reports any *)
(* list of up to MaxLive records.                                          *)

\* a row of the torrent table, by primary key
RecOf(i) ==
    CASE i = 1 -> [id |-> 1, info_hash |-> Some(<<"A", "B">>), name |-> <<"X">>,
                   correct_name |-> None, poster |-> None]
      [] i = 2 -> [id |-> 2, info_hash |-> None, name |-> <<"Y">>,
                   correct_name |-> Some(<<"Z">>), poster |-> Some(<<"P">>)]
      [] i = 3 -> [id |-> 3, info_hash |-> Some(<<>>), name |-> <<"W">>,
                   correct_name |-> Some(<<>>), poster |-> None]
      [] OTHER -> [id |-> i, info_hash |-> Some(<<"c">>), name |-> <<"V">>,
                   correct_name |-> None, poster |-> None]

\* sequences of at most n elements of S
RECURSIVE SeqsUpTo(_, _)
SeqsUpTo(S, n) ==
    IF n = 0 THEN {<<>>}
    ELSE LET shorter == SeqsUpTo(S, n - 1) IN
         shorter \cup {Append(q, x) : q \in {r \in shorter : Len(r) = n - 1}, x \in S}

BuildDbLists ==
    {[i \in DOMAIN ids |-> RecOf(ids[i])] :
        ids \in {a \in SeqsUpTo(1..MaxId, MaxRecs) :
                    \A i, j \in DOMAIN a : i # j => a[i] # a[j]}}

\* what the daemon can report for one torrent: the hash in upper or lower
\* case, an empty hash, no hash attribute, and a record lacking the
\* attributes the view reads
LiveRecs ==
    { Live(<<"A", "B">>, 1, 3, "downloading"),
      [Live(<<"a", "b">>, 1, 1, "uploading") EXCEPT !.dlspeed = 0, !.eta = None],
      Live(<<>>, 0, 1, "stalledDL"),
      [progress |-> [num |-> 2, den |-> 3], state |-> "pausedDL", dlspeed |-> 0,
       upspeed |-> 0, eta |-> None],
      [hash |-> <<"a", "b">>] }

InitBuild ==
    /\ active = <<1>>
    /\ _lock = FALSE
    /\ chan = [w \in Conns |-> IF w = 1 THEN "open" ELSE "new"]
    /\ pc = "await_qb"
    /\ next_run = now + POLL_INTERVAL
    /\ _last_snapshot = None
    /\ _fail_count = 0
    /\ _cached_db_list \in {Some(d) : d \in BuildDbLists}
    /\ _last_db_fetch = now
    /\ _poll_lock = TRUE
    /\ _stop_event = FALSE
    /\ qb_elapsed = 0
    /\ orphans = 0
    /\ snapshot = None
    /\ b_conns = <<>>
    /\ b_idx = 0
    /\ b_dead = <<>>
    /\ b_got = <<>>
    /\ backoff_pending = FALSE
    /\ emptied = FALSE
    /\ idled = FALSE
    /\ last_built = None
    /\ last_inputs = None
    /\ run_backoff = 0
    /\ join_age = -1
    /\ since_poll = 0
    /\ last_bcast = None
    /\ received = {}
    /\ ev = [kind |-> "init"]
    /\ AppInit

NextBuild ==
    \/ \E q_list \in SeqsUpTo(LiveRecs, MaxLive) : QbReturn(q_list)
    \/ Send

SpecBuild == InitBuild /\ [][NextBuild]_vars

-----------------------------------------------------------------------------
(* The daemon client of qb_helper.py.  get_qb_client runs under _qb_lock,   *)
(* so one call is one step.  A session is the Client object built by the   *)
(* gen-th call of _build_client, with its login state.                     *)

\* what auth_log_in (or the is_logged_in check before it) can do:
\* succeed, raise LoginFailed, raise APIConnectionError, raise another error
LoginOutcomes == {"ok", "login_failed", "connection_error", "other_error"}

\* a handler that logs in again on the session that failed
RetrySameSession(c, b, o2) ==
    [client |-> {[c EXCEPT !.logged_in = (o2 = "ok")]}, builds |-> b,
     raised |-> o2 # "ok", logins |-> 2]

\* lines 64-67: except (LoginFailed, APIConnectionError): a new session is
\* built and auth_log_in is called on it, outside any try
RebuildAndLogin(c, b, o2) ==
    [client |-> Some([gen |-> b + 1, logged_in |-> (o2 = "ok")]), builds |-> b + 1,
     raised |-> o2 # "ok", logins |-> 2]

\* get_qb_client(force_relogin), lines 49-69, from the session `client` after
\* b builds; o1 and o2 are what the first and the second login do
get_qb_client(client, b, force_relogin, o1, o2) ==
    LET b1 == IF client = None THEN b + 1 ELSE b
        c1 == IF client = None THEN [gen |-> b + 1, logged_in |-> FALSE] ELSE The(client)
        c2 == IF force_relogin THEN [c1 EXCEPT !.logged_in = FALSE] ELSE c1 IN
    IF c2.logged_in
    THEN [client |-> Some(c2), builds |-> b1, raised |-> FALSE, logins |-> 0]
    ELSE CASE o1 = "ok" ->
                [client |-> Some([c2 EXCEPT !.logged_in = TRUE]), builds |-> b1,
                 raised |-> FALSE, logins |-> 1]
           [] o1 \in {"login_failed", "connection_error"} -> RebuildAndLogin(c2, b1, o2)
           [] OTHER ->
                [client |-> Some(c2), builds |-> b1, raised |-> TRUE, logins |-> 1]

\* a caller (list_torrents, find_torrent_by_hash, set_torrent_tags, the
\* routes through get_qb) asks for the client
GetQbClient(force_relogin, o1, o2) ==
    LET c == get_qb_client(_qb_client, builds, force_relogin, o1, o2) IN
    /\ c.builds <= MaxBuilds
    /\ _qb_client' = c.client
    /\ builds' = c.builds
    /\ ev' = [kind |-> "get_client", force |-> force_relogin,
              first |-> IF c.logins >= 1 THEN o1 ELSE "none",
              second |-> IF c.logins = 2 THEN o2 ELSE "none",
              before |-> _qb_client, builds_before |-> builds,
              raised |-> c.raised, logins |-> c.logins]
    /\ UNCHANGED <<store, bg_tasks, qb_accepted, WsVars, CallVars>>

\* the daemon drops the session (restart, expired cookie)
SessionExpires ==
    /\ _qb_client # None
    /\ The(_qb_client).logged_in
    /\ _qb_client' = Some([The(_qb_client) EXCEPT !.logged_in = FALSE])
    /\ ev' = [kind |-> "env"]
    /\ UNCHANGED <<store, bg_tasks, qb_accepted, builds, WsVars, CallVars>>

NextClient ==
    \/ \E force_relogin \in BOOLEAN, o1, o2 \in LoginOutcomes :
            GetQbClient(force_relogin, o1, o2)
    \/ SessionExpires

SpecClient == Init /\ [][NextClient]_vars

-----------------------------------------------------------------------------
(* get_qb_client statement by statement, called from several threads at    *)
(* once: the broadcaster's to_thread worker, the background tasks of the   *)
(* endpoints, the routes.  th[t].pc is the statement thread t is at, and   *)
(* th[t].gen the session it last checked or logged in.                     *)

Threads == 1..NumThreads

\* the statements inside `with _qb_lock:`
Inside == {"check", "build", "logout", "login", "rebuild", "relogin", "return"}

\* a lock that never makes a thread wait
LockAlwaysFree == TRUE

\* threading.Lock: free when no thread holds it
LockFree == _qb_lock = None

\* leaving the with block, by return or by an exception
Release(t) == _qb_lock' = IF _qb_lock = Some(t) THEN None ELSE _qb_lock

SessionFrame == UNCHANGED <<store, bg_tasks, qb_accepted, call, poll, WsVars>>

\* a thread calls get_qb_client(force_relogin)
Call(t, force_relogin) ==
    /\ th[t].pc = "idle"
    /\ th' = [th EXCEPT ![t] = [pc |-> "lock", force |-> force_relogin]]
    /\ ev' = [kind |-> "call", thread |-> t]
    /\ UNCHANGED <<_qb_client, builds, _qb_lock, login_failed>>
    /\ SessionFrame

\* line 51: with _qb_lock
Acquire(t) ==
    /\ th[t].pc = "lock"
    /\ LockFree
    /\ _qb_lock' = Some(t)
    /\ th' = [th EXCEPT ![t].pc = "check"]
    /\ ev' = [kind |-> "acquire", thread |-> t]
    /\ UNCHANGED <<_qb_client, builds, login_failed>>
    /\ SessionFrame

\* line 52: if _qb_client is None
CheckNone(t) ==
    /\ th[t].pc = "check"
    /\ th' = [th EXCEPT ![t].pc = IF _qb_client = None THEN "build"
                                  ELSE IF th[t].force THEN "logout" ELSE "login"]
    /\ ev' = [kind |-> "check", thread |-> t]
    /\ UNCHANGED <<_qb_client, builds, _qb_lock, login_failed>>
    /\ SessionFrame

\* line 53: _qb_client = _build_client()
Build(t) ==
    /\ th[t].pc = "build"
    /\ builds < MaxBuilds
    /\ _qb_client' = Some([gen |-> builds + 1, logged_in |-> FALSE])
    /\ builds' = builds + 1
    /\ th' = [th EXCEPT ![t].pc = IF th[t].force THEN "logout" ELSE "login"]
    /\ ev' = [kind |-> "build", thread |-> t, first |-> TRUE]
    /\ UNCHANGED <<_qb_lock, login_failed>>
    /\ SessionFrame

\* lines 55-59: auth_log_out, whose exception is dropped
Logout(t, ok) ==
    /\ th[t].pc = "logout"
    /\ _qb_client' = IF ok THEN Some([The(_qb_client) EXCEPT !.logged_in = FALSE])
                     ELSE _qb_client
    /\ th' = [th EXCEPT ![t].pc = "login"]
    /\ ev' = [kind |-> "logout", thread |-> t]
    /\ UNCHANGED <<builds, _qb_lock, login_failed>>
    /\ SessionFrame

\* lines 61-65: is_logged_in, auth_log_in and what its exception leads to
Login(t, o1) ==
    /\ th[t].pc = "login"
    /\ LET c == The(_qb_client)
           tried == ~c.logged_in IN
       /\ tried \/ o1 = "ok"
       /\ _qb_client' = Some([c EXCEPT !.logged_in = (o1 = "ok")])
       /\ login_failed' = (login_failed \/ o1 # "ok")
       /\ th' = [th EXCEPT ![t] =
                    IF o1 = "ok" THEN [pc |-> "return", force |-> @.force, gen |-> c.gen]
                    ELSE IF o1 \in {"login_failed", "connection_error"}
                    THEN [pc |-> "rebuild", force |-> @.force]
                    ELSE [pc |-> "idle", force |-> FALSE]]
       /\ IF o1 = "other_error" THEN Release(t) ELSE UNCHANGED _qb_lock
       /\ ev' = [kind |-> "login", thread |-> t, outcome |-> o1, tried |-> tried]
    /\ UNCHANGED builds
    /\ SessionFrame

\* line 66: _qb_client = _build_client()
Rebuild(t) ==
    /\ th[t].pc = "rebuild"
    /\ builds < MaxBuilds
    /\ _qb_client' = Some([gen |-> builds + 1, logged_in |-> FALSE])
    /\ builds' = builds + 1
    /\ th' = [th EXCEPT ![t].pc = "relogin"]
    /\ ev' = [kind |-> "build", thread |-> t, first |-> FALSE]
    /\ UNCHANGED <<_qb_lock, login_failed>>
    /\ SessionFrame

\* line 67: _qb_client.auth_log_in(), outside any try
Relogin(t, o2) ==
    /\ th[t].pc = "relogin"
    /\ LET c == The(_qb_client) IN
       /\ _qb_client' = Some([c EXCEPT !.logged_in = (o2 = "ok")])
       /\ login_failed' = (login_failed \/ o2 # "ok")
       /\ th' = [th EXCEPT ![t] =
                    IF o2 = "ok" THEN [pc |-> "return", force |-> @.force, gen |-> c.gen]
                    ELSE [pc |-> "idle", force |-> FALSE]]
       /\ IF o2 = "ok" THEN UNCHANGED _qb_lock ELSE Release(t)
       /\ ev' = [kind |-> "login", thread |-> t, outcome |-> o2, tried |-> TRUE]
    /\ UNCHANGED builds
    /\ SessionFrame

\* line 69: return _qb_client, and the end of the with block
Return(t) ==
    /\ th[t].pc = "return"
    /\ Release(t)
    /\ th' = [th EXCEPT ![t] = [pc |-> "idle", force |-> FALSE]]
    /\ ev' = [kind |-> "returned", thread |-> t, value |-> _qb_client,
              worked_on |-> th[t].gen]
    /\ UNCHANGED <<_qb_client, builds, login_failed>>
    /\ SessionFrame

NextSession ==
    \/ \E t \in Threads, force_relogin \in BOOLEAN : Call(t, force_relogin)
    \/ \E t \in Threads : Acquire(t)
    \/ \E t \in Threads : CheckNone(t)
    \/ \E t \in Threads : Build(t)
    \/ \E t \in Threads, ok \in BOOLEAN : Logout(t, ok)
    \/ \E t \in Threads, o1 \in LoginOutcomes : Login(t, o1)
    \/ \E t \in Threads : Rebuild(t)
    \/ \E t \in Threads, o2 \in LoginOutcomes : Relogin(t, o2)
    \/ \E t \in Threads : Return(t)
    \/ SessionExpires

SpecSession == Init /\ [][NextSession]_vars

-----------------------------------------------------------------------------
(* Ingest: utils/torrent_utils.py, the submission endpoints of main.py and *)
(* their background task.  A submission is a magnet URI (text is the value *)
(* of its xt parameter, empty when it has none), an uploaded file (text is *)
(* the hex digest of its info dictionary, empty when the file cannot be    *)
(* decoded) or another source string.                                      *)

BtihPrefix == <<"u", "r", "n", ":", "b", "t", "i", "h", ":">>

\* str.startswith
StartsWith(s, p) == Len(s) >= Len(p) /\ SubSeq(s, 1, Len(p)) = p

\* str.replace(p, "")
RECURSIVE Replace(_, _)
Replace(s, p) ==
    IF Len(s) < Len(p) THEN s
    ELSE IF SubSeq(s, 1, Len(p)) = p THEN Replace(SubSeq(s, Len(p) + 1, Len(s)), p)
    ELSE <<Head(s)>> \o Replace(Tail(s), p)

RECURSIVE StripLeft(_)
StripLeft(s) == IF s # <<>> /\ Head(s) = " " THEN StripLeft(Tail(s)) ELSE s

RECURSIVE StripRight(_)
StripRight(s) ==
    IF s # <<>> /\ s[Len(s)] = " " THEN StripRight(SubSeq(s, 1, Len(s) - 1)) ELSE s

\* str.strip()
Strip(s) == StripRight(StripLeft(s))

\* a Python value used as a condition: None and "" are false
Truthy(o) == o # None /\ The(o) # <<>>

\* parse_magnet, lines 29-31: the info hash it returns for the xt parameter
parse_magnet(xt) ==
    IF Truthy(xt) /\ StartsWith(The(xt), BtihPrefix)
    THEN Some(Strip(Lower(Replace(The(xt), BtihPrefix))))
    ELSE xt

\* get_info_hash_from_file: hexdigest().lower(), None when decoding fails
get_info_hash_from_file(digest) == IF digest = <<>> THEN None ELSE Some(Lower(digest))

Magnet(xt) == [kind |-> "magnet", text |-> xt, path |-> 0]

Upload(digest) == [kind |-> "file", text |-> digest, path |-> 0]

OtherSource == [kind |-> "url", text |-> <<>>, path |-> 0]

\* what clients submit: magnets with the hash in upper case after the usual
\* prefix, with an upper-case prefix, without xt; files; a plain URL
Submissions ==
    { Magnet(BtihPrefix \o <<"A", "B">>),
      Magnet(<<"U", "R", "N", ":", "B", "T", "I", "H", ":", "A", "B">>),
      Magnet(<<>>),
      Upload(<<"c">>),
      OtherSource }

\* params.get("xt", [None])[0]
XtParam(src) == IF src.text = <<>> THEN None ELSE Some(src.text)

\* info_hash_val of a submission
InfoHashVal(src) ==
    CASE src.kind = "file" -> get_info_hash_from_file(src.text)
      [] src.kind = "magnet" -> parse_magnet(XtParam(src))
      [] OTHER -> None

\* the id the store assigns to the next row
NextId(st) == IF st = <<>> THEN 1 ELSE st[Len(st)].id + 1

\* "Check for existing record" by source, then update or create_torrent
\* (main.py 140-180 and 341-379): the table afterwards and the row's id
Upsert(st, src, h) ==
    LET found == {i \in DOMAIN st : st[i].source = src} IN
    IF found # {}
    THEN LET i == CHOOSE k \in found : \A j \in found : k <= j IN
         [store |-> [st EXCEPT ![i] = IF Truthy(h)
                                      THEN [@ EXCEPT !.info_hash = h, !.qb_added = TRUE]
                                      ELSE @],
          id |-> st[i].id]
    ELSE [store |-> Append(st, [id |-> NextId(st), source |-> src, info_hash |-> h,
                                qb_added |-> Truthy(h), qb_error |-> FALSE]),
          id |-> NextId(st)]

\* an error handler that records the message and leaves the flag
set_qb_error_keeps_flag(st, id) ==
    [i \in DOMAIN st |-> IF st[i].id = id THEN [st[i] EXCEPT !.qb_error = TRUE]
                         ELSE st[i]]

\* crud.set_qb_error
set_qb_error(st, id) ==
    [i \in DOMAIN st |-> IF st[i].id = id
                         THEN [st[i] EXCEPT !.qb_error = TRUE, !.qb_added = FALSE]
                         ELSE st[i]]

\* POST /torrents, main.py 93-210.  A source that is no magnet leaves
\* name_val and info_hash_val unbound and the handler raises.
AddTorrentEndpoint(src) ==
    /\ Len(bg_tasks) < MaxTasks
    /\ IF src.kind = "url"
       THEN /\ ev' = [kind |-> "submit", ok |-> FALSE, id |-> 0]
            /\ UNCHANGED <<store, bg_tasks>>
       ELSE LET h == InfoHashVal(src)
                r == Upsert(store, src, h) IN
            /\ Len(r.store) <= MaxRecords
            /\ store' = r.store
            /\ bg_tasks' = Append(bg_tasks, [info_hash |-> h, rec_id |-> r.id,
                                             source |-> src])
            /\ ev' = [kind |-> "submit", ok |-> TRUE, id |-> r.id]
    /\ UNCHANGED <<qb_accepted, _qb_client, builds, WsVars, CallVars>>

\* one entry of POST /torrents/batch, main.py 304-382; st is the table and
\* the queue of background tasks.  An uploaded file is saved under a fresh
\* uuid4 name.
BatchItem(st, item) ==
    LET src == IF item.kind = "file" THEN [item EXCEPT !.path = NextId(st.store)]
               ELSE item
        h == InfoHashVal(item)
        r == Upsert(st.store, src, h) IN
    [store |-> r.store,
     tasks |-> IF Truthy(h)
               THEN Append(st.tasks, [info_hash |-> h, rec_id |-> r.id, source |-> src])
               ELSE st.tasks]

RECURSIVE BatchFold(_, _)
BatchFold(st, items) ==
    IF items = <<>> THEN st ELSE BatchFold(BatchItem(st, Head(items)), Tail(items))

\* POST /torrents/batch, main.py 214-420
AddTorrentsBatch(items) ==
    LET r == BatchFold([store |-> store, tasks |-> bg_tasks], items) IN
    /\ Len(r.store) <= MaxRecords
    /\ Len(r.tasks) <= MaxTasks
    /\ store' = r.store
    /\ bg_tasks' = r.tasks
    /\ ev' = [kind |-> "batch", n |-> Len(items)]
    /\ UNCHANGED <<qb_accepted, _qb_client, builds, WsVars, CallVars>>

\* _add_to_qb, main.py 183-187, running qb_helper.add_torrent (77-112):
\* get_qb_client, torrents_add, and for a file with a known hash the wait
\* for the torrent, whose find_torrent_by_hash asks for the client again
\* (lost: the session was dropped meanwhile and cannot be set up again).
\* Whatever add_torrent returns is dropped; an exception is recorded by
\* set_qb_error.
RunBackgroundTask(o1, o2, add_ok, lost) ==
    /\ bg_tasks # <<>>
    /\ LET t == Head(bg_tasks)
           c == get_qb_client(_qb_client, builds, FALSE, o1, o2)
           accepted == ~c.raised /\ add_ok
           waits == accepted /\ t.source.kind = "file" /\ Truthy(t.info_hash)
           d == IF waits /\ lost
                THEN get_qb_client(Some([The(c.client) EXCEPT !.logged_in = FALSE]),
                                   c.builds, FALSE, "connection_error", "connection_error")
                ELSE c
           raised == ~accepted \/ d.raised IN
       /\ d.builds <= MaxBuilds
       /\ lost => waits
       /\ ~add_ok => ~c.raised
       /\ _qb_client' = d.client
       /\ builds' = d.builds
       /\ qb_accepted' = IF accepted THEN qb_accepted \cup {t.rec_id} ELSE qb_accepted
       /\ store' = IF raised THEN set_qb_error(store, t.rec_id) ELSE store
       /\ bg_tasks' = Tail(bg_tasks)
       /\ ev' = [kind |-> "task", rec_id |-> t.rec_id, accepted |-> accepted,
                 raised |-> raised]
    /\ UNCHANGED <<WsVars, CallVars>>

NextIngest ==
    \/ \E src \in Submissions : AddTorrentEndpoint(src)
    \/ \E items \in SeqsUpTo(Submissions, MaxBatch) : AddTorrentsBatch(items)
    \/ \E o1, o2 \in LoginOutcomes, add_ok, lost \in BOOLEAN :
            RunBackgroundTask(o1, o2, add_ok, lost)

SpecIngest == Init /\ [][NextIngest]_vars

-----------------------------------------------------------------------------
(* The helpers of qb_helper.py that make daemon requests: list_torrents,   *)
(* find_torrent_by_hash, set_torrent_tags, add_torrent.  Each begins with  *)
(* get_qb_client(); g is what that call did.  A request either answers or  *)
(* raises (connection refused, timeout after QBT_TIMEOUT, HTTP error).     *)

\* range(10) of add_torrent, line 106
FIND_ATTEMPTS == 10

\* what torrents_info(torrent_hashes=h) can do: a list with the torrent, a
\* list with a record that carries no hash attribute, an empty list, raise
FindOutcomes == {"found", "found_nohash", "absent", "error"}

\* (info_hash or "").lower()
LowerOr(h) == IF h = None THEN <<>> ELSE Lower(The(h))

\* getattr(t, "hash", None)
HashAttr(t) == IF "hash" \in DOMAIN t THEN Some(t.hash) ELSE None

\* the first position at which p occurs in s, 0 when it does not
IndexOf(s, p) ==
    LET at == {i \in 1..(Len(s) - Len(p) + 1) : SubSeq(s, i, i + Len(p) - 1) = p} IN
    IF at = {} THEN 0 ELSE CHOOSE i \in at : \A j \in at : i <= j

\* str.split(p)
RECURSIVE Split(_, _)
Split(s, p) ==
    LET i == IndexOf(s, p) IN
    IF i = 0 THEN <<s>>
    ELSE <<SubSeq(s, 1, i - 1)>> \o Split(SubSeq(s, i + Len(p), Len(s)), p)

MagnetHead == <<"m", "a", "g", "n", "e", "t", ":", "?">>

\* the URI of a magnet submission: its xt parameter, when it has one, and a
\* display name
MagnetUri(src) ==
    MagnetHead \o (IF src.text = <<>> THEN <<>> ELSE <<"x", "t", "=">> \o src.text \o <<"&">>)
               \o <<"d", "n", "=", "x">>

\* lines 92-95: magnet_or_file.split("btih:")[1].split("&")[0].lower(), None
\* on IndexError
MagnetHash(uri) ==
    LET a == Split(uri, <<"b", "t", "i", "h", ":">>) IN
    IF Len(a) < 2 THEN None ELSE Some(Lower(Split(a[2], <<"&">>)[1]))

\* list_torrents, lines 115-118: req is what torrents_info() does
list_torrents(g, req) ==
    [raised |-> g.raised \/ req # "ok", failed |-> g.raised \/ req # "ok",
     value |-> IF g.raised \/ req # "ok" THEN None ELSE Some("list")]

\* find_torrent_by_hash, lines 121-135: get_qb_client() is outside the try,
\* the request inside it; `except Exception: return None`
find_torrent_by_hash(h, g, f) ==
    IF g.raised THEN [raised |-> TRUE, failed |-> TRUE, value |-> None, asked |-> None]
    ELSE IF LowerOr(h) = <<>>
    THEN [raised |-> FALSE, failed |-> FALSE, value |-> None, asked |-> None]
    ELSE [raised |-> FALSE, failed |-> f = "error",
          value |-> CASE f = "found" -> Some([hash |-> LowerOr(h)])
                      [] f = "found_nohash" -> Some([name |-> <<"x">>])
                      [] OTHER -> None,
          asked |-> Some(LowerOr(h))]

\* set_torrent_tags, lines 138-157: creates_ok is whether every
\* torrents_create_tag answered, final_ok whether torrents_add_tags (or,
\* without tags, torrents_remove_tags) did
set_torrent_tags(h, tags, g, creates_ok, final_ok) ==
    IF g.raised THEN [raised |-> TRUE, failed |-> TRUE, value |-> None]
    ELSE IF LowerOr(h) = <<>> THEN [raised |-> FALSE, failed |-> FALSE, value |-> None]
    ELSE IF tags # <<>>
    THEN [raised |-> ~final_ok, failed |-> ~creates_ok \/ ~final_ok, value |-> None]
    ELSE [raised |-> FALSE, failed |-> ~final_ok, value |-> None]

\* the loop of line 106 goes on after n attempts
MoreAttemptsOneExtra(n) == n <= FIND_ATTEMPTS

MoreAttempts(n) == n < FIND_ATTEMPTS

\* get_qb_client() as the helpers call it
Session(o1, o2) == get_qb_client(_qb_client, builds, FALSE, o1, o2)

CallsFrame == UNCHANGED <<store, bg_tasks, qb_accepted, th, _qb_lock, login_failed,
                          poll, WsVars>>

ListTorrents(o1, o2, req) ==
    LET g == Session(o1, o2)
        r == list_torrents(g, req) IN
    /\ call.pc = "idle"
    /\ g.builds <= MaxBuilds
    /\ _qb_client' = g.client
    /\ builds' = g.builds
    /\ ev' = [kind |-> "helper", fn |-> "list_torrents", failed |-> r.failed,
              raised |-> r.raised, value |-> r.value]
    /\ UNCHANGED call
    /\ CallsFrame

FindTorrentByHash(h, o1, o2, f) ==
    LET g == Session(o1, o2)
        r == find_torrent_by_hash(h, g, f) IN
    /\ call.pc = "idle"
    /\ g.builds <= MaxBuilds
    /\ _qb_client' = g.client
    /\ builds' = g.builds
    /\ ev' = [kind |-> "helper", fn |-> "find_torrent_by_hash", failed |-> r.failed,
              raised |-> r.raised, value |-> r.value]
    /\ UNCHANGED call
    /\ CallsFrame

SetTorrentTags(h, tags, o1, o2, creates_ok, final_ok) ==
    LET g == Session(o1, o2)
        r == set_torrent_tags(h, tags, g, creates_ok, final_ok) IN
    /\ call.pc = "idle"
    /\ g.builds <= MaxBuilds
    /\ _qb_client' = g.client
    /\ builds' = g.builds
    /\ ev' = [kind |-> "helper", fn |-> "set_torrent_tags", failed |-> r.failed,
              raised |-> r.raised, value |-> r.value]
    /\ UNCHANGED call
    /\ CallsFrame

\* what add_torrent is called with: the submission and the hash the endpoint
\* computed for it; for a file also no hash and a hash in upper case
AddTorrentArgs ==
    {[src |-> src, info_hash |-> InfoHashVal(src)] : src \in Submissions}
        \cup {[src |-> Upload(<<"c">>), info_hash |-> h] :
                  h \in {None, Some(<<>>), Some(<<"C">>)}}

\* how add_torrent ended
Ended(a, failed, raised, value, polls, asked) ==
    [kind |-> "helper", fn |-> "add_torrent", failed |-> failed, raised |-> raised,
     value |-> value, polls |-> polls, src |-> a.src, info_hash |-> a.info_hash,
     asked |-> asked]

\* add_torrent, lines 87-104: get_qb_client, torrents_add, and for a magnet
\* the return; add_ok is whether open() and torrents_add went through.  A
\* source that is no magnet is opened as a file, and a plain URL is no file.
AddTorrent(a, o1, o2, add_ok) ==
    LET g == Session(o1, o2)
        sent == ~g.raised /\ add_ok /\ a.src.kind # "url" IN
    /\ call.pc = "idle"
    /\ g.builds <= MaxBuilds
    /\ _qb_client' = g.client
    /\ builds' = g.builds
    /\ IF ~sent
       THEN /\ ev' = Ended(a, TRUE, TRUE, None, 0, <<>>)
            /\ UNCHANGED call
       ELSE IF a.src.kind = "magnet"
       THEN /\ ev' = Ended(a, FALSE, FALSE, MagnetHash(MagnetUri(a.src)), 0, <<>>)
            /\ UNCHANGED call
       ELSE IF LowerOr(a.info_hash) = <<>>
       THEN /\ ev' = Ended(a, FALSE, FALSE, None, 0, <<>>)
            /\ UNCHANGED call
       ELSE /\ call' = [pc |-> "polling", args |-> a, attempts |-> 0, asked |-> <<>>,
                        failed |-> FALSE]
            /\ ev' = [kind |-> "added"]
    /\ CallsFrame

\* lines 106-112: one find_torrent_by_hash(info_hash), and time.sleep(0.5)
\* when it found nothing
AddTorrentAttempt(o1, o2, f) ==
    LET g == Session(o1, o2)
        r == find_torrent_by_hash(Some(LowerOr(call.args.info_hash)), g, f)
        n == call.attempts + 1
        asked == IF r.asked = None THEN call.asked ELSE Append(call.asked, The(r.asked))
        failed == call.failed \/ r.failed IN
    /\ call.pc = "polling"
    /\ g.builds <= MaxBuilds
    /\ _qb_client' = g.client
    /\ builds' = g.builds
    /\ IF r.raised
       THEN /\ ev' = Ended(call.args, failed, TRUE, None, n, asked)
            /\ call' = [pc |-> "idle"]
       ELSE IF r.value # None
       THEN /\ ev' = Ended(call.args, failed, FALSE, HashAttr(The(r.value)), n, asked)
            /\ call' = [pc |-> "idle"]
       ELSE IF MoreAttempts(n)
       THEN /\ ev' = [kind |-> "attempt", found |-> FALSE]
            /\ call' = [call EXCEPT !.attempts = n, !.asked = asked, !.failed = failed]
       ELSE /\ ev' = Ended(call.args, failed, FALSE, None, n, asked)
            /\ call' = [pc |-> "idle"]
    /\ CallsFrame

NextCalls ==
    \/ \E o1, o2 \in LoginOutcomes, req \in {"ok", "error"} : ListTorrents(o1, o2, req)
    \/ \E h \in {None, Some(<<"A", "b">>)}, o1, o2 \in LoginOutcomes, f \in FindOutcomes :
            FindTorrentByHash(h, o1, o2, f)
    \/ \E h \in {None, Some(<<"A", "b">>)}, tags \in {<<>>, <<"t1", "t2">>},
          o1, o2 \in LoginOutcomes, creates_ok, final_ok \in BOOLEAN :
            SetTorrentTags(h, tags, o1, o2, creates_ok, final_ok)
    \/ \E a \in AddTorrentArgs, o1, o2 \in LoginOutcomes, add_ok \in BOOLEAN :
            AddTorrent(a, o1, o2, add_ok)
    \/ \E o1, o2 \in LoginOutcomes, f \in FindOutcomes : AddTorrentAttempt(o1, o2, f)
    \/ SessionExpires

SpecCalls == Init /\ [][NextCalls]_vars

-----------------------------------------------------------------------------
(* tasks.poll_for_new_torrent_info_hash: one step per iteration of its     *)
(* loop.  The rows it works on come from the endpoints.                    *)

\* QBT_POLL_RETRIES is read from the environment (default "10"); the
\* deployment modelled here sets it to 3
QBT_POLL_RETRIES == 3

RECURSIVE StripSlashes(_)
StripSlashes(s) ==
    IF s # <<>> /\ s[Len(s)] = "/" THEN StripSlashes(SubSeq(s, 1, Len(s) - 1)) ELSE s

\* the last position of character c in s, 0 when it is not there
LastIndexOf(s, c) ==
    LET at == {i \in DOMAIN s : s[i] = c} IN
    IF at = {} THEN 0 ELSE CHOOSE i \in at : \A j \in at : j <= i

\* Path(p).name: the last component of the path
PathName(p) ==
    LET q == StripSlashes(p) IN SubSeq(q, LastIndexOf(q, "/") + 1, Len(q))

\* Path(p).stem: the name without its last suffix; a leading or a trailing
\* dot starts no suffix
Stem(p) ==
    LET n == PathName(p)
        i == LastIndexOf(n, ".") IN
    IF 1 < i /\ i < Len(n) THEN SubSeq(n, 1, i - 1) ELSE n

\* lines 19 and 27: Path(...).stem.lower()
Normalize(name) == Lower(Stem(name))

\* line 26: getattr(t, "name", "") or getattr(t, "display_name", "")
TransferName(t) ==
    IF "name" \in DOMAIN t /\ t.name # <<>> THEN t.name
    ELSE IF "display_name" \in DOMAIN t THEN t.display_name
    ELSE <<>>

\* lines 28-30: the name matches and the transfer has a hash
Resolves(t, name_match) ==
    Normalize(TransferName(t)) = name_match /\ Truthy(HashAttr(t))

\* the scan of lines 24-32: the position of the transfer that ends it, 0
\* when the listing has none
FirstResolving(torrents, name_match) ==
    LET at == {i \in DOMAIN torrents : Resolves(torrents[i], name_match)} IN
    IF at = {} THEN 0 ELSE CHOOSE i \in at : \A j \in at : i <= j

\* a write that stores the hash and leaves the flag
set_info_hash_only(st, id, h) ==
    [i \in DOMAIN st |-> IF st[i].id = id THEN [st[i] EXCEPT !.info_hash = Some(h)]
                         ELSE st[i]]

\* crud.set_info_hash_and_mark_added: nothing when the row is not there
set_info_hash_and_mark_added(st, id, h) ==
    [i \in DOMAIN st |-> IF st[i].id = id
                         THEN [st[i] EXCEPT !.info_hash = Some(h), !.qb_added = TRUE]
                         ELSE st[i]]

\* a loop that makes one listing more
PollMoreOneExtra(n) == n <= QBT_POLL_RETRIES

\* line 21: for _ in range(QBT_POLL_RETRIES)
PollMore(n) == n < QBT_POLL_RETRIES

\* what the daemon lists: a transfer "a.b" with hash ab, a transfer "A"
\* without hash, a transfer known by its display name "b.c" with an
\* upper-case hash
PollRecs ==
    << [name |-> <<"a", ".", "b">>, hash |-> <<"a", "b">>],
       [name |-> <<"A">>],
       [name |-> <<>>, display_name |-> <<"b", ".", "c">>, hash |-> <<"C">>] >>

\* the listings the daemon answers with
Listings ==
    { <<>>,
      <<PollRecs[2]>>,
      <<PollRecs[3]>>,
      <<PollRecs[2], PollRecs[1]>>,
      <<PollRecs[3], PollRecs[1]>>,
      <<PollRecs[2], PollRecs[3], PollRecs[2]>> }

\* the names the poll is started with
LocalNames == { <<"A", ".", "t">>, <<"u", "/", "B", ".", "t">> }

PollFrame == UNCHANGED <<bg_tasks, qb_accepted, th, _qb_lock, login_failed, call,
                         WsVars>>

\* the call and line 19
PollStart(local_name, torrent_id) ==
    /\ poll.pc = "idle"
    /\ poll' = [pc |-> "running", name_match |-> Normalize(local_name),
                torrent_id |-> torrent_id, listings |-> 0]
    /\ ev' = [kind |-> "poll_start"]
    /\ UNCHANGED <<store, _qb_client, builds>>
    /\ PollFrame

\* one iteration, lines 21-35, and the return of line 36 after the last:
\* list_torrents() answers torrents or raises (o: what the login does when
\* one is needed, req: what the request does); write_ok is whether the
\* commit of set_info_hash_and_mark_added goes through.  Every exception
\* inside the try is dropped.
PollListing(o, req, torrents, write_ok) ==
    LET g == Session(o, o)
        r == list_torrents(g, req)
        k == IF r.raised THEN 0 ELSE FirstResolving(torrents, poll.name_match)
        wrote == k > 0 /\ write_ok
        n == poll.listings + 1
        ended == wrote \/ ~PollMore(n) IN
    /\ poll.pc = "running"
    /\ g.builds <= MaxBuilds
    /\ r.raised => torrents = <<>>
    /\ k = 0 => write_ok
    /\ _qb_client' = g.client
    /\ builds' = g.builds
    /\ store' = IF wrote
                THEN set_info_hash_and_mark_added(store, poll.torrent_id,
                                                  The(HashAttr(torrents[k])))
                ELSE store
    /\ poll' = IF ended THEN [pc |-> "idle"] ELSE [poll EXCEPT !.listings = n]
    /\ ev' = [kind |-> "listing", n |-> n, listed |-> ~r.raised, torrents |-> torrents,
              name_match |-> poll.name_match, torrent_id |-> poll.torrent_id,
              write_ok |-> write_ok, ended |-> ended, raised |-> FALSE,
              ret |-> IF wrote THEN HashAttr(torrents[k]) ELSE None,
              store_before |-> store]
    /\ PollFrame

\* the submissions that leave a row without hash, and one with
PollSubmissions == {Magnet(<<>>), Upload(<<"c">>)}

\* the table and the task queue right after a POST /torrents/batch
InitPoll ==
    /\ WsInit
    /\ ev = [kind |-> "init"]
    /\ \E items \in SeqsUpTo(PollSubmissions, MaxRecords) :
          LET r == BatchFold([store |-> <<>>, tasks |-> <<>>], items) IN
          /\ store = r.store
          /\ bg_tasks = r.tasks
    /\ qb_accepted = {}
    /\ _qb_client = {}
    /\ builds = 0
    /\ th = [t \in 1..NumThreads |-> [pc |-> "idle", force |-> FALSE]]
    /\ _qb_lock = {}
    /\ login_failed = FALSE
    /\ call = [pc |-> "idle"]
    /\ poll = [pc |-> "idle"]

\* the poll is started for the first row or for a row that is not in the table
NextPoll ==
    \/ \E local_name \in LocalNames, torrent_id \in {1, MaxRecords + 1} :
            PollStart(local_name, torrent_id)
    \/ \E o \in {"ok", "connection_error"}, req \in {"ok", "error"},
          torrents \in Listings, write_ok \in BOOLEAN :
            PollListing(o, req, torrents, write_ok)

SpecPoll == InitPoll /\ [][NextPoll]_vars

-----------------------------------------------------------------------------
(* Properties.  ev describes the step that led to the current state, with  *)
(* what the step saw before it acted.                                      *)

\* the tick found a client and the poll lock free: a poll cycle started
CycleStarted == ev.kind = "tick" /\ ev.had_clients

\* C1: a tick that finds the registry empty issues no daemon call and no
\* store fetch: after it the loop is not awaiting list_torrents, no call was
\* added to those in flight, and get_all_torrents was not invoked.
C1_NoPollWithoutSubscribers ==
    (ev.kind = "tick" /\ ~ev.had_clients)
        => (pc # "await_qb" /\ InFlight = orphans /\ ~ev.fetched)

\* an idle tick that follows earlier polling
C1_Witness ==
    ev.kind = "tick" /\ ~ev.had_clients /\ last_built # None /\ orphans = 0

\* C2 as claimed: a subscriber that joined an empty registry while the loop
\* was waiting for its tick never waits longer than POLL_INTERVAL for the
\* next poll cycle to start.
C2_WithinOneInterval == join_age <= POLL_INTERVAL

\* C2 amended: such a subscriber waits until the loop's scheduled next_run:
\* at most POLL_INTERVAL when next_run was set by the cadence, and at most the
\* backoff duration of the last failure when a daemon failure has pushed
\* next_run forward.
C2_WithinIntervalOrBackoff ==
    join_age <= (IF backoff_pending THEN run_backoff ELSE POLL_INTERVAL)

\* a poll cycle starts for a subscriber that waited longer than POLL_INTERVAL
C2_Witness ==
    CycleStarted /\ ev.after_backoff /\ ev.waited > POLL_INTERVAL

\* C3: when the registry was empty at some moment since the last comparison,
\* the next successful poll cycle compares against no prior snapshot and
\* broadcasts.
C3_InvalidatedOnEmpty ==
    (ev.kind = "compare" /\ ev.emptied) => (ev.prior = None /\ ev.sent)

\* C4 as claimed: a successful poll cycle that builds the snapshot the
\* previous successful poll cycle built sends nothing.
C4_SameContentOnce ==
    (ev.kind = "compare" /\ ev.built = ev.prev_built) => ~ev.sent

\* C4 amended: it sends nothing unless a tick between the two cycles found
\* the registry empty.
C4_SameContentOnceUnlessIdle ==
    (ev.kind = "compare" /\ ev.built = ev.prev_built /\ ~ev.idled) => ~ev.sent

\* the second of two cycles with equal snapshots skipped the broadcast
C4_Witness ==
    ev.kind = "compare" /\ ev.built = ev.prev_built /\ ~ev.idled /\ ~ev.sent
        /\ active # <<>>

\* C5: within a run of consecutive daemon failures the backoff never
\* decreases, never exceeds MAX_BACKOFF, equals MAX_BACKOFF from the failure
\* whose count times the unit reaches it, and stays there; a successful daemon
\* call resets the counter, so the failure after it has the smallest backoff.
C5_BackoffMonotoneCappedReset ==
    /\ ev.kind = "qb_fail" =>
          /\ ev.backoff >= ev.prev_backoff
          /\ ev.backoff <= MAX_BACKOFF
          /\ (ev.fails_before + 1) * BACKOFF_STEP >= MAX_BACKOFF => ev.backoff = MAX_BACKOFF
          /\ ev.prev_backoff = MAX_BACKOFF => ev.backoff = MAX_BACKOFF
          /\ ev.prev_backoff = 0 => (ev.fails_before = 0 /\ ev.backoff = BACKOFF_STEP)
          /\ _fail_count = ev.fails_before + 1
    /\ ev.kind \in {"compare", "build_fail"} => (_fail_count = 0 /\ run_backoff = 0)

\* a failure at the ceiling followed the ceiling
C5_Witness ==
    ev.kind = "qb_fail" /\ ev.prev_backoff = MAX_BACKOFF /\ ev.backoff = MAX_BACKOFF

\* C6: a failed store fetch increments the failure counter and moves
\* next_run forward by the backoff duration.
C6_StoreFailureBacksOff ==
    (ev.kind = "tick" /\ ev.db_failed)
        => /\ _fail_count = ev.fails_before + 1
           /\ backoff_pending
           /\ next_run = now + _compute_backoff(_fail_count)

\* C7: while the stop signal is not set the loop task is alive, and after a
\* failed cycle (store fetch, daemon call or timeout, snapshot construction)
\* it is back at its scheduling point with the poll lock released and a next
\* tick due after a bounded wait; a failed send leaves it inside broadcast or
\* at its scheduling point.
C7_LoopSurvivesFailure ==
    ~_stop_event =>
        /\ pc \in {"run", "sleep", "await_qb", "send"}
        /\ (ev.kind \in {"qb_fail", "build_fail"} \/ (ev.kind = "tick" /\ ev.db_failed))
              => /\ pc \in {"run", "sleep"}
                 /\ ~_poll_lock
                 /\ next_run <= now + Max(POLL_INTERVAL, MAX_BACKOFF)
        /\ ev.kind \in {"send", "bcast_done"} => pc \in {"run", "sleep", "send"}

\* a snapshot could not be built from a malformed live record
C7_Witness == ev.kind = "build_fail" /\ pc \in {"run", "sleep"} /\ ~_stop_event

\* C8: at most one list_torrents call started by the loop is executing.
C8_OneInFlight == InFlight <= 1

\* C9: outside backoff, a poll cycle starts at least POLL_INTERVAL after
\* the previous one started.
C9_MissedTicksSkipped ==
    (CycleStarted /\ ~ev.after_backoff) => ev.gap >= POLL_INTERVAL

\* C10: when broadcast returns, every member of the copy taken at the call
\* was sent to exactly once, those whose send raised are not in the registry,
\* the others received the message and are still registered unless their own
\* handler removed them, and the caller is running; with 3 members of which 1
\* is broken that is 2 deliveries.
C10_BroadcastIsolatesBroken ==
    ev.kind = "bcast_done" =>
        /\ Len(ev.got) + Len(ev.dead) = Len(ev.conns)
        /\ Range(ev.got) \cup Range(ev.dead) = Range(ev.conns)
        /\ Range(ev.got) \cap Range(ev.dead) = {}
        /\ Range(ev.dead) \cap Range(active) = {}
        /\ \A w \in Range(ev.got) : w \in Range(ev.before) => w \in Range(active)
        /\ Range(active) = Range(ev.before) \ Range(ev.dead)
        /\ pc \in {"run", "sleep"}
        /\ (Len(ev.conns) = 3 /\ Len(ev.dead) = 1) => Len(ev.got) = 2

\* three members, one broken: two deliveries, two members left
C10_Witness ==
    /\ ev.kind = "bcast_done"
    /\ Len(ev.conns) = 3
    /\ Len(ev.before) = 3
    /\ Len(ev.dead) = 1
    /\ Len(ev.got) = 2
    /\ Len(active) = 2

\* the number of times w occurs in the sequence s
Count(s, w) == Cardinality({i \in DOMAIN s : s[i] = w})

\* C11: while broadcast sends and when it returns, every connection has
\* received the message at most once and only members of the copy taken at
\* the call have received it: a connection that joined after the copy was
\* taken has received it zero times.
C11_SingleCopyAtMostOnce ==
    /\ pc = "send" =>
          /\ \A w \in Conns : Count(b_got, w) <= 1
          /\ \A w \in Conns : w \notin Range(b_conns) => Count(b_got, w) = 0
    /\ ev.kind = "bcast_done" =>
          /\ \A w \in Conns : Count(ev.got, w) <= 1
          /\ \A w \in Conns : w \notin Range(ev.conns) => Count(ev.got, w) = 0

\* a broadcast delivered to a member returns after another connection joined
C11_Witness ==
    /\ ev.kind = "bcast_done"
    /\ Len(ev.got) >= 1
    /\ \E w \in Range(ev.before) : w \notin Range(ev.conns)

\* C12: while broadcast is suspended inside a send, the registry lock is
\* free: a connection that arrives can be appended and a handler whose
\* channel broke can remove its connection.
C12_SendsHoldNoLock ==
    pc = "send" =>
        /\ ~_lock
        /\ \A w \in Conns :
              (chan[w] = "new" /\ \A v \in Conns : v < w => chan[v] # "new")
                  => ENABLED WsConnect(w, TRUE)
        /\ \A w \in Conns : chan[w] = "broken" => ENABLED WsPing(w)

\* during one broadcast a connection joined and a member of the copy left
C12_Witness ==
    /\ pc = "send"
    /\ \E w \in Range(active) : w \notin Range(b_conns)
    /\ \E w \in Range(b_conns) : w \notin Range(active)

(* The builder's inputs and output at a state reached by a comparison *)

BuiltDb == The(last_inputs).db_list

BuiltLive == The(last_inputs).q_list

Built == The(ev.built)

\* the lowercase info_hash of a persisted record, "" when it has none
HashOf(t) == IF t.info_hash = None THEN <<>> ELSE Lower(The(t.info_hash))

\* the positions of the daemon's report whose lowercase hash is k
Reported(k) ==
    {j \in DOMAIN BuiltLive :
        Lower(IF "hash" \in DOMAIN BuiltLive[j] THEN BuiltLive[j].hash ELSE <<>>) = k}

\* the views of the snapshot for the persisted record t
ViewsOf(t) == {i \in DOMAIN Built : Built[i].id = t.id}

\* C13: every snapshot the loop compares and every snapshot it sends is
\* ordered by record id, non-increasing.
C13_DescendingById ==
    /\ ev.kind = "compare" =>
          \A i, j \in DOMAIN Built : i < j => Built[i].id >= Built[j].id
    /\ snapshot # None =>
          \A i, j \in DOMAIN The(snapshot) : i < j => The(snapshot)[i].id >= The(snapshot)[j].id

\* a snapshot of three views is sent for a record list that was ascending
C13_Witness ==
    /\ ev.kind = "compare"
    /\ ev.sent
    /\ Len(Built) = 3
    /\ \A i, j \in DOMAIN BuiltDb : i < j => BuiltDb[i].id < BuiltDb[j].id

\* C14: a persisted record whose lowercase info_hash is no key of the live
\* map has a view with progress 0, state "missing", speeds 0 and no eta, with
\* the record's id, lowercase hash, display name (correct_name when it has
\* one, else name) and poster.
C14_MissingView ==
    ev.kind = "compare" =>
        \A n \in DOMAIN BuiltDb :
            LET t == BuiltDb[n] IN
            Reported(HashOf(t)) = {} =>
                \E i \in ViewsOf(t) :
                    Built[i] = [id |-> t.id, hash |-> HashOf(t),
                                name |-> IF t.correct_name # None /\ The(t.correct_name) # <<>>
                                         THEN The(t.correct_name) ELSE t.name,
                                progress |-> 0, state |-> "missing", dlspeed |-> 0,
                                upspeed |-> 0, eta |-> None, poster |-> t.poster]

\* a record with a corrected name and a poster is missing while the daemon
\* reports other torrents
C14_Witness ==
    /\ ev.kind = "compare"
    /\ BuiltLive # <<>>
    /\ \E n \in DOMAIN BuiltDb :
          /\ BuiltDb[n].correct_name = Some(<<"Z">>)
          /\ BuiltDb[n].poster # None
          /\ Reported(HashOf(BuiltDb[n])) = {}
          /\ \E i \in ViewsOf(BuiltDb[n]) : Built[i].state = "missing"

\* C15: the snapshot has exactly one view per persisted record; the view of
\* a record whose lowercase info_hash is reported by the daemon carries the
\* state, speeds and eta of the last record reported with that hash, and as
\* progress the integer part of its fraction times 100, within 0..100.
C15_OneViewPerRecordMerged ==
    ev.kind = "compare" =>
        /\ Len(Built) = Len(BuiltDb)
        /\ \A n \in DOMAIN BuiltDb : Cardinality(ViewsOf(BuiltDb[n])) = 1
        /\ \A n \in DOMAIN BuiltDb :
              LET t == BuiltDb[n]
                  hits == Reported(HashOf(t)) IN
              hits # {} =>
                  LET live == BuiltLive[CHOOSE j \in hits : \A h \in hits : h <= j] IN
                  \A i \in ViewsOf(t) :
                      /\ Built[i].state = live.state
                      /\ Built[i].dlspeed = live.dlspeed
                      /\ Built[i].upspeed = live.upspeed
                      /\ Built[i].eta = live.eta
                      /\ Built[i].progress = (live.progress.num * 100) \div live.progress.den
                      /\ Built[i].progress \in 0..100
                      /\ Built[i].hash = HashOf(t)

\* the daemon reported one hash twice with different states, in upper and
\* in lower case, and the record's view has the progress of the later report
C15_Witness ==
    /\ ev.kind = "compare"
    /\ \E n \in DOMAIN BuiltDb :
          /\ Cardinality(Reported(HashOf(BuiltDb[n]))) = 2
          /\ HashOf(BuiltDb[n]) = <<"a", "b">>
          /\ \E j, h \in Reported(HashOf(BuiltDb[n])) :
                /\ j < h
                /\ LiveFields \subseteq DOMAIN BuiltLive[j]
                /\ BuiltLive[j].state = "uploading"
                /\ BuiltLive[h].state = "downloading"
          /\ \E i \in ViewsOf(BuiltDb[n]) : Built[i].progress = 33

\* C16: the view of a persisted record whose info_hash is absent or empty is
\* the "missing" one, whatever the daemon reported.
C16_EmptyHashNeverMatches ==
    ev.kind = "compare" =>
        \A n \in DOMAIN BuiltDb :
            HashOf(BuiltDb[n]) = <<>> =>
                \A i \in ViewsOf(BuiltDb[n]) :
                    Built[i].state = "missing" /\ Built[i].progress = 0

HexLower == {"0", "1", "2", "3", "4", "5", "6", "7", "8", "9",
             "a", "b", "c", "d", "e", "f"}

\* C18: the info_hash of every row of the store, when present, is a
\* non-empty string of lowercase hexadecimal digits (its length, 40 in the
\* program, is not modelled).
C18_InfoHashCanonical ==
    \A i \in DOMAIN store :
        store[i].info_hash # None =>
            /\ The(store[i].info_hash) # <<>>
            /\ \A k \in DOMAIN The(store[i].info_hash) :
                  The(store[i].info_hash)[k] \in HexLower

\* C19: a row's qb_added is true only if the daemon has accepted the row's
\* transfer.
C19_AddedOnlyAfterAccepted ==
    \A i \in DOMAIN store : store[i].qb_added => store[i].id \in qb_accepted

\* C20: a call of get_qb_client whose first login fails with LoginFailed or
\* APIConnectionError leaves a session other than the one that failed, has
\* built exactly one session after the failure and logged in twice; it
\* raises exactly when the second login fails, and then the new session is
\* kept, not logged in.
C20_RebuildOnceThenPropagate ==
    (ev.kind = "get_client" /\ ev.first \in {"login_failed", "connection_error"}) =>
        /\ builds = ev.builds_before + (IF ev.before = None THEN 2 ELSE 1)
        /\ ev.logins = 2
        /\ _qb_client # None
        /\ The(_qb_client).gen = builds
        /\ ev.before # None => The(_qb_client).gen # The(ev.before).gen
        /\ ev.raised <=> ev.second # "ok"
        /\ The(_qb_client).logged_in <=> ev.second = "ok"

\* the login on an existing session failed and the login on the rebuilt one
\* failed too
C20_Witness ==
    /\ ev.kind = "get_client"
    /\ ev.before # None
    /\ ev.first = "login_failed"
    /\ ev.second = "connection_error"
    /\ ev.raised
    /\ builds = ev.builds_before + 1

\* C21: get_qb_client called from several threads at once: at most one thread
\* is inside the locked block (session creation and login happen one at a
\* time), the session is built at most once as long as no login has failed,
\* and a call returns the session that is current when it returns, which is
\* the one it checked or logged in.
C21_OneSharedSession ==
    /\ Cardinality({t \in Threads : th[t].pc \in Inside}) <= 1
    /\ \A t \in Threads : th[t].pc \in Inside => _qb_lock = Some(t)
    /\ ~login_failed => builds <= 1
    /\ ev.kind = "returned" =>
          /\ ev.value # None
          /\ ev.value = _qb_client
          /\ The(ev.value).gen = ev.worked_on

\* a call returned the session another thread's call had built, while that
\* other thread was waiting for the lock again
C21_Witness ==
    /\ ev.kind = "returned"
    /\ builds = 1
    /\ ~login_failed
    /\ \E t \in Threads : t # ev.thread /\ th[t].pc = "lock"

\* C22: whenever a daemon request made by list_torrents, find_torrent_by_hash,
\* add_torrent or set_torrent_tags (the session set-up included) fails, the
\* helper raises to its caller instead of returning normally.
C22_FailuresPropagate ==
    (ev.kind = "helper" /\ ev.failed) => ev.raised

\* C23: for a magnet, the value add_torrent returns is the hash the endpoint
\* stored at submission (parse_magnet), it is in lower case, and no lookup
\* of the daemon was needed for it.
C23_MagnetHashFromUri ==
    (ev.kind = "helper" /\ ev.fn = "add_torrent" /\ ev.src.kind = "magnet" /\ ~ev.raised)
        => /\ ev.polls = 0
           /\ ev.value = parse_magnet(XtParam(ev.src))
           /\ ev.value # None => Lower(The(ev.value)) = The(ev.value)

\* C24: for a file, add_torrent asks the daemon at most FIND_ATTEMPTS times,
\* each time for the lower-cased hash it was given; it returns the hash of
\* the record found by the first attempt that finds one, null after the
\* last attempt found nothing, and null without asking when the hash is
\* unknown or empty.  The loop never goes past its bound.
C24_BoundedLookup ==
    /\ call.pc = "polling" => call.attempts < FIND_ATTEMPTS
    /\ (ev.kind = "helper" /\ ev.fn = "add_torrent" /\ ev.src.kind = "file") =>
          /\ ev.polls <= FIND_ATTEMPTS
          /\ \A k \in DOMAIN ev.asked : ev.asked[k] = LowerOr(ev.info_hash)
          /\ LowerOr(ev.info_hash) = <<>> => (ev.polls = 0 /\ ev.value = None)
          /\ ev.value # None => (~ev.raised /\ ev.value = Some(LowerOr(ev.info_hash))
                                    /\ Len(ev.asked) = ev.polls)
          /\ (~ev.raised /\ ev.value = None /\ LowerOr(ev.info_hash) # <<>>
                 /\ ev.polls < FIND_ATTEMPTS) => ev.polls >= 1

\* the tenth lookup found nothing and add_torrent returned null
C24_Witness ==
    /\ ev.kind = "helper" /\ ev.fn = "add_torrent" /\ ev.src.kind = "file"
    /\ ~ev.raised /\ ev.value = None /\ ev.polls = FIND_ATTEMPTS
    /\ Len(ev.asked) = FIND_ATTEMPTS

\* C25: when the background task _add_to_qb fails (add_torrent raises), the
\* record it was started for ends with qb_added false and qb_error set; the
\* submission itself had already succeeded.
C25_FailedAdditionRecorded ==
    (ev.kind = "task" /\ ev.raised) =>
        \A i \in DOMAIN store :
            store[i].id = ev.rec_id => (~store[i].qb_added /\ store[i].qb_error)

\* the addition of a record that was stored as added has failed
C25_Witness ==
    /\ ev.kind = "task" /\ ev.raised
    /\ \E i \in DOMAIN store :
          /\ store[i].id = ev.rec_id
          /\ Truthy(store[i].info_hash)
          /\ ~store[i].qb_added
          /\ store[i].qb_error

\* the transfers of the last listing whose normalized name is the hint
Named == {i \in DOMAIN ev.torrents :
             Normalize(TransferName(ev.torrents[i])) = ev.name_match}

\* those of them that carry a hash
NamedWithHash == {i \in Named : Truthy(HashAttr(ev.torrents[i]))}

\* the row the poll was started for
Owned(st) == {st[i] : i \in {j \in DOMAIN st : st[j].id = ev.torrent_id}}

\* C26 as stated: at the first listing that contains a transfer whose
\* normalized name equals the normalized hint, the poll writes that
\* transfer's hash to the owning record, sets its added flag and returns the
\* hash without a further listing.
C26_FirstMatchResolves ==
    (ev.kind = "listing" /\ ev.listed /\ Named # {}) =>
        /\ ev.ended
        /\ poll.pc = "idle"
        /\ \E i \in Named : ev.ret = HashAttr(ev.torrents[i]) /\ ev.ret # None
        /\ \A row \in Owned(store) : row.info_hash = ev.ret /\ row.qb_added

\* C26, amended: the same at the first listing that contains a transfer with
\* a matching name and a non-empty hash and whose store write goes through;
\* the hash is that of the first such transfer of the listing.
C26_FirstMatchWithHashResolves ==
    (ev.kind = "listing" /\ ev.listed /\ NamedWithHash # {} /\ ev.write_ok) =>
        /\ ev.ended
        /\ poll.pc = "idle"
        /\ \E i \in NamedWithHash :
              /\ \A j \in NamedWithHash : i <= j
              /\ ev.ret = HashAttr(ev.torrents[i])
        /\ \A row \in Owned(store) : row.info_hash = ev.ret /\ row.qb_added
        /\ \A i \in DOMAIN store :
              store[i].id # ev.torrent_id => store[i] = ev.store_before[i]

\* the second listing resolved a row that had no hash
C26_Witness ==
    /\ ev.kind = "listing" /\ ev.n = 2 /\ ev.ret # None
    /\ \E row \in Owned(ev.store_before) : row.info_hash = None /\ ~row.qb_added
    /\ \E row \in Owned(store) : row.info_hash = ev.ret /\ row.qb_added

\* C27: the poll makes at most QBT_POLL_RETRIES listings and never raises; a
\* listing that fails or resolves nothing leaves the store as it was, and
\* after the last such listing the poll returns null.
C27_GivesUpSilently ==
    /\ poll.pc = "running" => poll.listings < QBT_POLL_RETRIES
    /\ ev.kind = "listing" =>
          /\ ev.n <= QBT_POLL_RETRIES
          /\ ~ev.raised
          /\ (~ev.listed \/ NamedWithHash = {}) =>
                /\ store = ev.store_before
                /\ ev.ret = None
                /\ ev.ended <=> ev.n = QBT_POLL_RETRIES
          /\ (ev.ended /\ ev.ret = None) => ev.n = QBT_POLL_RETRIES

\* the last listing failed like the ones before it; the row still has no
\* hash
C27_Witness ==
    /\ ev.kind = "listing" /\ ev.n = QBT_POLL_RETRIES /\ ~ev.listed
    /\ ev.ended /\ ev.ret = None /\ poll.pc = "idle"
    /\ \E row \in Owned(store) : row.info_hash = None /\ ~row.qb_added

\* C28: when ws_stop_broadcaster stops the loop during a cycle (the daemon
\* call or a broadcast is in flight), the cycle goes on: the loop is still
\* in it after the stop request and leaves only at its scheduling point.
C28_StopAtSchedulingPoint ==
    (ev.kind = "shutdown" /\ ev.at \in {"await_qb", "send"}) => pc = ev.at

\* the step of a poll cycle whose daemon call fails
DaemonCallFails == pc = "await_qb" /\ _fail_count' = _fail_count + 1

\* C29: a poll cycle whose daemon call fails sends nothing (it does not reach
\* the broadcast and holds no snapshot to send), leaves _last_snapshot as it
\* was and leaves the registry and its connections as they were.
C29_OutageFreezesFeed ==
    [][DaemonCallFails =>
          /\ _last_snapshot' = _last_snapshot
          /\ active' = active
          /\ chan' = chan
          /\ pc' \notin {"send", "await_qb"}
          /\ snapshot' = None
          /\ b_conns' = <<>>]_vars

\* the daemon call failed while subscribers held a snapshot sent earlier
C29_Witness ==
    ev.kind = "qb_fail" /\ _last_snapshot # None /\ active # <<>>

\* C30: the next-run time after a failed daemon call is never earlier than
\* the next-run time scheduled before the failure.
C30_BackoffNeverEarlier ==
    [][DaemonCallFails => next_run' >= next_run]_vars


\* C31 as stated: in every state _last_snapshot is absent or is the payload
\* of the most recent torrents_snapshot broadcast, the one in flight when
\* there is one, and a cycle whose snapshot is unchanged leaves it as it was.
C31_LastIsMostRecentBroadcast ==
    /\ \/ _last_snapshot = None
       \/ _last_snapshot = (IF pc = "send" THEN snapshot ELSE last_bcast)
    /\ (ev.kind = "compare" /\ ~ev.sent) => _last_snapshot = ev.prior

\* C31: _last_snapshot is written only after manager.broadcast has returned:
\* in every state it is absent or is the payload of the most recent broadcast
\* that returned (while one is in flight, of the one before it), and a cycle
\* whose snapshot is unchanged leaves it as it was.
C31_LastIsLastReturnedBroadcast ==
    /\ \/ _last_snapshot = None
       \/ _last_snapshot = last_bcast
    /\ (ev.kind = "compare" /\ ~ev.sent) => _last_snapshot = ev.prior

\* C31: a second, different snapshot is being broadcast while the stored one
\* is still the first
C31_Witness ==
    /\ pc = "send"
    /\ b_got # <<>>
    /\ _last_snapshot # None
    /\ snapshot # _last_snapshot
    /\ _last_snapshot = last_bcast


\* C32: a cycle that goes on to build a snapshot holds a list fetched less
\* than DB_REFRESH_EVERY before its freshness check (at the check itself when
\* the check refreshed it), after an idle period or a backoff as well; and
\* the loop queries the store only when the cached list is missing or its
\* age has reached DB_REFRESH_EVERY, leaving the cache alone otherwise.
C32_BoundedStaleness ==
    [][ev'.kind = "tick" =>
          /\ pc' = "await_qb" =>
                /\ _cached_db_list' # None
                /\ now - _last_db_fetch' < DB_REFRESH_EVERY
          /\ (ev'.fetched \/ ev'.db_failed) => NeedFetch
          /\ ~ev'.fetched =>
                /\ _cached_db_list' = _cached_db_list
                /\ _last_db_fetch' = _last_db_fetch]_vars

\* C32: the first cycle after a backoff refreshes a list that earlier cycles
\* had built snapshots from
C32_Witness ==
    /\ ev.kind = "tick"
    /\ pc = "await_qb"
    /\ ev.fetched
    /\ ev.after_backoff
    /\ last_inputs # None
    /\ _last_db_fetch = now


\* C33: a connection whose token verify_token refuses is closed and is never
\* in the registry: every member of manager.active is a connection that was
\* admitted, and a refused connection is in no broadcast's copy of the
\* registry, has been sent no torrents_snapshot and has no keepalive running.
C33_RejectedNeverRegistered ==
    \A w \in Conns :
        /\ w \in Range(active) => chan[w] \in {"open", "broken", "done"}
        /\ chan[w] = "rejected" =>
              /\ w \notin Range(active)
              /\ w \notin Range(b_conns)
              /\ w \notin Range(b_got)
              /\ w \notin received
              /\ ~ENABLED WsPing(w)

\* C33: a broadcast has just been delivered to an admitted subscriber while
\* another connection had been refused
C33_Witness ==
    /\ ev.kind = "bcast_done"
    /\ \E w, v \in Conns :
          /\ chan[w] = "rejected"
          /\ chan[v] = "open"
          /\ v \in Range(ev.got)
          /\ v \in received


\* C34: joining sends no torrents_snapshot: the step that admits a connection
\* leaves the set of connections that were sent one as it was, the joiner
\* outside it; a connection is sent a snapshot only inside a broadcast of a
\* snapshot that differs from the stored one; a cycle whose snapshot differs
\* broadcasts to every registered connection, the joiner included; and a
\* cycle whose snapshot is unchanged sends nothing to anyone.
C34_JoinerWaitsForChange ==
    [][/\ \A w \in Conns :
             (chan[w] = "new" /\ chan'[w] = "open") =>
                 (received' = received /\ w \notin received')
       /\ received' # received =>
             (pc = "send" /\ snapshot # None /\ snapshot # _last_snapshot)
       /\ (ev'.kind = "compare" /\ ev'.sent /\ active # <<>>) =>
             (pc' = "send" /\ Range(b_conns') = Range(active))
       /\ (ev'.kind = "compare" /\ ~ev'.sent) =>
             (pc' # "send" /\ received' = received)]_vars

\* C34: a cycle has just found the snapshot unchanged while the registry
\* holds a subscriber that was sent a snapshot and a later one that has been
\* sent none
C34_Witness ==
    /\ ev.kind = "compare"
    /\ ~ev.sent
    /\ \E w, v \in Conns :
          /\ w \in Range(active) /\ chan[w] = "open" /\ w \in received
          /\ v \in Range(active) /\ chan[v] = "open" /\ v \notin received


\* C35: the registry leaks no connection: a connection whose handler has
\* ended (its keepalive send failed) is not in manager.active, the members of
\* manager.active are connections whose handler is running, each once; the
\* connections whose send failed inside a broadcast are not in it when the
\* broadcast returns; and removing a connection that is absent leaves the
\* registry as it is.
C35_NoLeak ==
    /\ \A w \in Conns :
          /\ chan[w] = "done" => w \notin Range(active)
          /\ w \in Range(active) => chan[w] \in {"open", "broken"}
          /\ Count(active, w) <= 1
          /\ w \notin Range(active) =>
                (disconnect(active, w) = active /\ HandlerExit(active, w) = active)
    /\ ev.kind = "bcast_done" =>
          \A w \in Range(ev.dead) : w \notin Range(active)

\* C35: one handler has ended after its keepalive failed, and a broadcast
\* has removed another broken connection whose handler is still running,
\* while a third subscriber stays registered
C35_Witness ==
    /\ ev.kind = "bcast_done"
    /\ \E w, v, u \in Conns :
          /\ chan[w] = "done" /\ w \notin Range(ev.conns)
          /\ chan[v] = "broken" /\ v \in Range(ev.dead)
          /\ chan[u] = "open" /\ u \in Range(active)

====
